---- MODULE Spec2Model ----
(***************************************************************************)
(* Model of the course-schedule planner (JiCorrales/creadordehorario).     *)
(*                                                                         *)
(* Spec       : the scheduling hook useSchedule (schedule collection,      *)
(*              conflict engine, import, optimistic rename) driven by the  *)
(*              handlers of App / ScheduleManager / ImportHtmlModal.       *)
(* ScrapeSpec : the scraping orchestrator parseTecHtmlWithReport and the   *)
(*              in-memory report history.                                  *)
(*                                                                         *)
(* Strings the code takes apart (times "HH:MM", course names and groups)   *)
(* are sequences of one-character strings, so that split / Number /        *)
(* template-literal concatenation are computed as the code computes them.  *)
(* Fields no modelled code reads (credits, quota, reserved, status, color  *)
(* and the session ids; in the hook also campus, professor and classroom)  *)
(* are left out of the course records.                                     *)
(***************************************************************************)
EXTENDS Integers, Sequences, FiniteSets, TLC

VARIABLES
    schedules,          \* useState<Schedule[]>: sequence of schedule records
    currentScheduleId,  \* useState<string | null>
    nextId,             \* how many ids generateId() has handed out, plus one
    inflight,           \* renameSchedule calls awaiting their confirmation
    lastOp,             \* the last API call: its name, argument and outcome
    scrapingReportHistory,  \* the module-level array of stored reports
    attempts,           \* how many parse calls have been made
    lastParse           \* the last parse call: its arguments and outcome

schedVars == <<schedules, currentScheduleId, nextId, inflight, lastOp>>

scrapeVars == <<scrapingReportHistory, attempts, lastParse>>

vars == <<schedVars, scrapeVars>>

\* ------------------------------------------------------------------ bounds
MaxIds == 3          \* ids generateId() may hand out in one behaviour
MaxSchedules == 2    \* schedules in the collection
MaxCourses == 2      \* courses in one schedule
MaxInflight == 1     \* renameSchedule calls pending at the same time
MaxAttempts == 2     \* parse calls in one behaviour
MaxHistoryAttempts == 27   \* parse calls when the history is filled

\* --------------------------------------------------------------- constants
NoId == 0            \* null where the code holds an id
NoError == <<>>      \* the call returned normally
NoConflict == <<>>   \* checkCourseConflicts returned null
NaN == -1            \* Number() of a non-numeric string; never a valid count

Digits == <<"0", "1", "2", "3", "4", "5", "6", "7", "8", "9">>

\* ------------------------------------------------------------ input values
T0000 == <<"0", "0", ":", "0", "0">>
T0700 == <<"0", "7", ":", "0", "0">>
T0800 == <<"0", "8", ":", "0", "0">>
T0830 == <<"0", "8", ":", "3", "0">>
T0900 == <<"0", "9", ":", "0", "0">>
T1000 == <<"1", "0", ":", "0", "0">>

Session(d, s, e) == [day |-> d, startTime |-> s, endTime |-> e]

\* What the course form or the scraper can put in a course: name, group and
\* sessions.  PB and PC are two different (name, group) pairs.
PA == [name |-> <<"A">>, group |-> <<"1">>,
       sessions |-> <<Session("Lunes", T0700, T0900)>>]
PB == [name |-> <<"A", "-", "1">>, group |-> <<"2">>,
       sessions |-> <<Session("Lunes", T0900, T1000)>>]
PC == [name |-> <<"A">>, group |-> <<"1", "-", "2">>,
       sessions |-> <<Session("Martes", T0700, T0900),
                      Session("Lunes", T0830, T1000)>>]

Payloads == {PA, PB, PC}

ScheduleNames == {"Mi Horario", "Plan B"}

ServerError == <<"Error del servidor">>

NothingNewError == <<"No hay cursos nuevos para importar (todos duplicados).">>

MkCourse(id, p, sched) ==
    [id |-> id, name |-> p.name, group |-> p.group,
     isScheduled |-> sched, sessions |-> p.sessions]

\* ---------------------------------------------------------- sequence tools
Map(s, F(_)) == [i \in 1..Len(s) |-> F(s[i])]

Exists(s, P(_)) == \E i \in 1..Len(s) : P(s[i])

\* Array.prototype.findIndex, 1-based: the first index satisfying P, or 0
FindIndex(s, P(_)) ==
    IF Exists(s, P)
    THEN CHOOSE i \in 1..Len(s) : P(s[i]) /\ \A j \in 1..(i - 1) : ~P(s[j])
    ELSE 0

\* ---------------------------------------------------------------- the code
\* generateId(): a token no earlier call returned
generateId(n) == n

\* String.prototype.split(':')
RECURSIVE SplitColon(_)
SplitColon(str) ==
    IF \A i \in 1..Len(str) : str[i] # ":"
    THEN <<str>>
    ELSE LET k == CHOOSE i \in 1..Len(str) :
                      str[i] = ":" /\ \A j \in 1..(i - 1) : str[j] # ":"
         IN  <<SubSeq(str, 1, k - 1)>> \o SplitColon(SubSeq(str, k + 1, Len(str)))

DigitValue(ch) == (CHOOSE i \in 1..10 : Digits[i] = ch) - 1

IsDigit(ch) == \E i \in 1..10 : Digits[i] = ch

\* Number(str) for the strings the model feeds it: '' is 0, a run of decimal
\* digits is its value, anything else is NaN
RECURSIVE Number(_)
Number(str) ==
    IF Len(str) = 0 THEN 0
    ELSE IF \E i \in 1..Len(str) : ~IsDigit(str[i]) THEN NaN
    ELSE Number(SubSeq(str, 1, Len(str) - 1)) * 10 + DigitValue(str[Len(str)])

parseTime(time) ==
    LET parts == SplitColon(time)
        hours == Number(parts[1])
        minutes == IF Len(parts) >= 2 THEN Number(parts[2]) ELSE NaN
    IN  IF hours = NaN \/ minutes = NaN THEN NaN ELSE hours * 60 + minutes

\* a < b on JavaScript numbers: false as soon as one side is NaN
NumLess(a, b) == a # NaN /\ b # NaN /\ a < b

\* the overlap test with <= and >= in place of < and >
checkSessionConflict_inclusive(newSession, existingCourses) ==
    LET scheduledCourses == SelectSeq(existingCourses, LAMBDA c : c.isScheduled)
    IN  \E ci \in 1..Len(scheduledCourses) :
            \E si \in 1..Len(scheduledCourses[ci].sessions) :
                LET session == scheduledCourses[ci].sessions[si]
                    startA == parseTime(newSession.startTime)
                    endA == parseTime(newSession.endTime)
                    startB == parseTime(session.startTime)
                    endB == parseTime(session.endTime)
                IN  /\ session.day = newSession.day
                    /\ ~NumLess(endB, startA)
                    /\ ~NumLess(endA, startB)

checkSessionConflict(newSession, existingCourses) ==
    LET scheduledCourses == SelectSeq(existingCourses, LAMBDA c : c.isScheduled)
    IN  \E ci \in 1..Len(scheduledCourses) :
            \E si \in 1..Len(scheduledCourses[ci].sessions) :
                LET session == scheduledCourses[ci].sessions[si]
                    startA == parseTime(newSession.startTime)
                    endA == parseTime(newSession.endTime)
                    startB == parseTime(session.startTime)
                    endB == parseTime(session.endTime)
                IN  /\ session.day = newSession.day
                    /\ NumLess(startA, endB)
                    /\ NumLess(startB, endA)

ConflictMessage(session) ==
    <<"Choque de horario", session.day, session.startTime, session.endTime>>

\* checkCourseConflicts that reports the last conflicting session
checkCourseConflicts_last(courseToCheck, existingCourses) ==
    LET hits == {i \in 1..Len(courseToCheck.sessions) :
                     checkSessionConflict(courseToCheck.sessions[i], existingCourses)}
    IN  IF hits = {} THEN NoConflict
        ELSE ConflictMessage(
                 courseToCheck.sessions[CHOOSE i \in hits : \A j \in hits : i >= j])

checkCourseConflicts(courseToCheck, existingCourses) ==
    LET hits == {i \in 1..Len(courseToCheck.sessions) :
                     checkSessionConflict(courseToCheck.sessions[i], existingCourses)}
    IN  IF hits = {} THEN NoConflict
        ELSE ConflictMessage(
                 courseToCheck.sessions[CHOOSE i \in hits : \A j \in hits : i <= j])

\* schedules.map(s => s.id === currentScheduleId ? {...s, courses: F(s.courses)} : s)
MapCurrent(scheds, cur, F(_)) ==
    [i \in 1..Len(scheds) |->
        IF scheds[i].id = cur
        THEN [scheds[i] EXCEPT !.courses = F(scheds[i].courses)]
        ELSE scheds[i]]

\* addCourse that keeps the argument's isScheduled
addCourse_keepflag(scheds, cur, course) ==
    MapCurrent(scheds, cur, LAMBDA cs : Append(cs, course))

addCourse(scheds, cur, course) ==
    MapCurrent(scheds, cur,
               LAMBDA cs : Append(cs, [course EXCEPT !.isScheduled = FALSE]))

addCourses(scheds, cur, newCourses) ==
    MapCurrent(scheds, cur, LAMBDA cs : cs \o newCourses)

\* removeCourse that filters the courses of every schedule
removeCourse_everywhere(scheds, cur, courseId) ==
    Map(scheds, LAMBDA s :
        [s EXCEPT !.courses = SelectSeq(@, LAMBDA c : c.id # courseId)])

removeCourse(scheds, cur, courseId) ==
    MapCurrent(scheds, cur, LAMBDA cs : SelectSeq(cs, LAMBDA c : c.id # courseId))

\* What a throwing operation hands back: the error (NoError when it returned)
\* and the collection handed to setSchedules (the old one when it threw first)
Outcome(e, scheds) == [error |-> e, schedules |-> scheds]

\* updateCourse that checks the replacement against every stored course,
\* the one it replaces included
updateCourse_selfcheck(scheds, cur, updatedCourse) ==
    LET k == FindIndex(scheds, LAMBDA s : s.id = cur)
        conflict == checkCourseConflicts(updatedCourse, scheds[k].courses)
    IN  IF cur = NoId \/ k = 0 THEN Outcome(NoError, scheds)
        ELSE IF updatedCourse.isScheduled /\ conflict # NoConflict
        THEN Outcome(conflict, scheds)
        ELSE Outcome(NoError,
                     MapCurrent(scheds, cur,
                         LAMBDA cs : Map(cs, LAMBDA c :
                             IF c.id = updatedCourse.id THEN updatedCourse ELSE c)))

updateCourse(scheds, cur, updatedCourse) ==
    LET k == FindIndex(scheds, LAMBDA s : s.id = cur)
        otherCourses == SelectSeq(scheds[k].courses, LAMBDA c : c.id # updatedCourse.id)
        conflict == checkCourseConflicts(updatedCourse, otherCourses)
    IN  IF cur = NoId \/ k = 0 THEN Outcome(NoError, scheds)
        ELSE IF updatedCourse.isScheduled /\ conflict # NoConflict
        THEN Outcome(conflict, scheds)
        ELSE Outcome(NoError,
                     MapCurrent(scheds, cur,
                         LAMBDA cs : Map(cs, LAMBDA c :
                             IF c.id = updatedCourse.id THEN updatedCourse ELSE c)))

\* toggleCourseStatus without the conflict check
toggleCourseStatus_nocheck(scheds, cur, courseId) ==
    Outcome(NoError,
            MapCurrent(scheds, cur,
                LAMBDA cs : Map(cs, LAMBDA c :
                    IF c.id = courseId
                    THEN [c EXCEPT !.isScheduled = ~c.isScheduled]
                    ELSE c)))

\* toggleCourseStatus that sets the flag instead of flipping it
toggleCourseStatus_settrue(scheds, cur, courseId) ==
    Outcome(NoError,
            MapCurrent(scheds, cur,
                LAMBDA cs : Map(cs, LAMBDA c :
                    IF c.id = courseId
                    THEN [c EXCEPT !.isScheduled = TRUE]
                    ELSE c)))

toggleCourseStatus(scheds, cur, courseId) ==
    LET k == FindIndex(scheds, LAMBDA s : s.id = cur)
        schedule == scheds[k]
        ci == FindIndex(schedule.courses, LAMBDA c : c.id = courseId)
        course == schedule.courses[ci]
        otherCourses == SelectSeq(schedule.courses, LAMBDA c : c.id # courseId)
        conflict == checkCourseConflicts(course, otherCourses)
    IN  IF cur = NoId \/ k = 0 THEN Outcome(NoError, scheds)
        ELSE IF ci = 0 THEN Outcome(NoError, scheds)
        ELSE IF ~course.isScheduled /\ conflict # NoConflict
        THEN Outcome(conflict, scheds)
        ELSE Outcome(NoError,
                     MapCurrent(scheds, cur,
                         LAMBDA cs : Map(cs, LAMBDA c :
                             IF c.id = courseId
                             THEN [c EXCEPT !.isScheduled = ~c.isScheduled]
                             ELSE c)))

\* toggleCourseStatus reaches its setSchedules call: a current schedule is
\* set, it is found, the course is found in it, and no conflict is thrown
callsSetSchedules(scheds, cur, courseId) ==
    LET k == FindIndex(scheds, LAMBDA s : s.id = cur)
    IN  /\ cur # NoId
        /\ k # 0
        /\ Exists(scheds[k].courses, LAMBDA c : c.id = courseId)
        /\ toggleCourseStatus(scheds, cur, courseId).error = NoError

\* courseIds.forEach(id => toggleCourseStatus(id)): every call runs in the
\* closure of one render, so each reads the same `schedules` and hands
\* setSchedules a plain value; the last value handed over is the next state.
\* A throw ends the forEach; the values set before it stay queued.
handleBulkToggleStatus(scheds, cur, courseIds) ==
    LET run[i \in 0..Len(courseIds)] ==
            IF i = 0 THEN Outcome(NoError, scheds)
            ELSE LET before == run[i - 1]
                     out == toggleCourseStatus(scheds, cur, courseIds[i])
                 IN  IF before.error # NoError THEN before
                     ELSE IF out.error # NoError
                     THEN Outcome(out.error, before.schedules)
                     ELSE IF callsSetSchedules(scheds, cur, courseIds[i]) THEN out
                     ELSE before
    IN  run[Len(courseIds)]

\* calling a name useSchedule() does not return: TypeError
NotAFunction(name) == <<name \o " is not a function">>

\* removeCourses(courseIds): the hook returns removeCourse, so the
\* destructured removeCourses is undefined and the call throws
handleBulkDelete(scheds, cur, courseIds) ==
    Outcome(NotAFunction("removeCourses"), scheds)

\* `${c.name}-${c.group}`
CourseKey(c) == c.name \o <<"-">> \o c.group

\* The source courses importCourses keeps, in source order
ImportCandidates(scheds, cur, sourceScheduleId) ==
    LET src == scheds[FindIndex(scheds, LAMBDA s : s.id = sourceScheduleId)]
        dst == scheds[FindIndex(scheds, LAMBDA s : s.id = cur)]
        existingKeys == {CourseKey(dst.courses[i]) : i \in 1..Len(dst.courses)}
    IN  SelectSeq(src.courses, LAMBDA c : CourseKey(c) \notin existingKeys)

\* n is the id counter before the call; the i-th kept course gets the i-th
\* fresh id
importCourses(scheds, cur, sourceScheduleId, n) ==
    LET kept == ImportCandidates(scheds, cur, sourceScheduleId)
        newCourses == [i \in 1..Len(kept) |->
                          [kept[i] EXCEPT !.id = generateId(n + i - 1),
                                          !.isScheduled = FALSE]]
    IN  IF cur = NoId THEN Outcome(NoError, scheds)
        ELSE IF FindIndex(scheds, LAMBDA s : s.id = sourceScheduleId) = 0
        THEN Outcome(NoError, scheds)
        ELSE IF FindIndex(scheds, LAMBDA s : s.id = cur) = 0
        THEN Outcome(NoError, scheds)
        ELSE IF Len(newCourses) = 0 THEN Outcome(NothingNewError, scheds)
        ELSE Outcome(NoError, MapCurrent(scheds, cur, LAMBDA cs : cs \o newCourses))

createSchedule(scheds, name, n) ==
    Append(scheds, [id |-> generateId(n), name |-> name,
                    courses |-> <<>>, createdAt |-> n])

deleteSchedule(scheds, id) == SelectSeq(scheds, LAMBDA s : s.id # id)

\* the functional update of renameSchedule: prev => prev.map(...)
renameUpdate(prev, scheduleId, newName) ==
    Map(prev, LAMBDA s : IF s.id = scheduleId THEN [s EXCEPT !.name = newName] ELSE s)

\* const previousSchedules = [...schedules]
renameSnapshot(scheds) == scheds

\* a catch block that rethrows without restoring
renameRollback_keep(current, previousSchedules) == current

\* setSchedules(previousSchedules) in the catch block
renameRollback(current, previousSchedules) == previousSchedules

\* migrateSchedules over stored JSON: data.isArray is Array.isArray(data); a
\* stored course is a record that may lack sessions / isScheduled / day /
\* startTime / endTime.  The legacy flat fields the spread keeps on the
\* migrated course are never read again and are dropped here.
Field(r, f, default) == IF f \in DOMAIN r THEN r[f] ELSE default

\* r[f] || default: the default replaces an absent field and an empty string
OrDefault(r, f, default) ==
    IF f \in DOMAIN r /\ Len(r[f]) > 0 THEN r[f] ELSE default

\* the session migrateSchedules builds from the flat fields of a course
LegacySession(course) ==
    [day |-> OrDefault(course, "day", "Lunes"),
     startTime |-> OrDefault(course, "startTime", T0000),
     endTime |-> OrDefault(course, "endTime", T0000),
     classroom |-> OrDefault(course, "classroom", "")]

\* a migration that keeps the isScheduled field of a flat record
migrateCourse_keepflag(course) ==
    [id |-> course.id, name |-> course.name, group |-> course.group,
     isScheduled |-> Field(course, "isScheduled", TRUE),
     sessions |-> IF "sessions" \in DOMAIN course THEN course.sessions
                  ELSE <<LegacySession(course)>>]

migrateCourse(course) ==
    IF "sessions" \in DOMAIN course
    THEN [id |-> course.id, name |-> course.name, group |-> course.group,
          isScheduled |-> Field(course, "isScheduled", TRUE),
          sessions |-> course.sessions]
    ELSE [id |-> course.id, name |-> course.name, group |-> course.group,
          isScheduled |-> TRUE,
          sessions |-> <<LegacySession(course)>>]

migrateSchedules(data) ==
    IF ~data.isArray THEN <<>>
    ELSE Map(data.items, LAMBDA schedule :
             [id |-> schedule.id, name |-> schedule.name,
              createdAt |-> schedule.createdAt,
              courses |-> Map(Field(schedule, "courses", <<>>), migrateCourse)])

\* the useState initializers: localStorage.getItem('schedules') is null
\* (saved.present = FALSE) or JSON that parses to saved.data
loadSchedules(saved) ==
    IF saved.present THEN migrateSchedules(saved.data) ELSE <<>>

loadCurrentScheduleId(saved) ==
    LET parsed == loadSchedules(saved)
    IN  IF Len(parsed) > 0 THEN parsed[1].id ELSE NoId

\* ------------------------------------------------------------ stored data
StoredScheduleId == 101
StoredCourseId == 102

SavedNone == [present |-> FALSE]

SavedNotArray == [present |-> TRUE, data |-> [isArray |-> FALSE]]

SavedLegacy ==
    [present |-> TRUE,
     data |-> [isArray |-> TRUE,
               items |-> <<[id |-> StoredScheduleId, name |-> "Mi Horario",
                            createdAt |-> 0,
                            courses |-> <<[id |-> StoredCourseId,
                                           name |-> PA.name, group |-> PA.group,
                                           day |-> "Lunes",
                                           startTime |-> T0700,
                                           endTime |-> T0900]>>]>>]]

SavedValues == {SavedNone, SavedNotArray, SavedLegacy}

\* stored courses of every shape the application has written: flat records
\* with all, some or none of the optional fields, records with a sessions
\* array with and without the isScheduled field
StoredCourse(id, fields) ==
    [f \in {"id", "name", "group"} \cup DOMAIN fields |->
        CASE f = "id" -> id
          [] f = "name" -> PA.name
          [] f = "group" -> PA.group
          [] OTHER -> fields[f]]

StoredFields ==
    {[day |-> "Martes", startTime |-> T0700, endTime |-> T0900, classroom |-> "B3"],
     [day |-> "Martes", startTime |-> T0700, endTime |-> T0900, classroom |-> "",
      isScheduled |-> FALSE],
     [day |-> "Jueves"],
     [classroom |-> "B3"],
     [sessions |-> PC.sessions, isScheduled |-> TRUE],
     [sessions |-> PC.sessions, isScheduled |-> FALSE],
     [sessions |-> PA.sessions],
     [sessions |-> <<>>, isScheduled |-> FALSE]}

StoredSchedule(courses) ==
    [id |-> StoredScheduleId, name |-> "Mi Horario", createdAt |-> 0,
     courses |-> courses]

SavedArray(items) == [present |-> TRUE, data |-> [isArray |-> TRUE, items |-> items]]

StoredValues ==
    {SavedNone, SavedNotArray, SavedArray(<<>>),
     SavedArray(<<[id |-> StoredScheduleId, name |-> "Mi Horario", createdAt |-> 0]>>)}
    \cup {SavedArray(<<StoredSchedule(<<StoredCourse(StoredCourseId, f)>>)>>) :
              f \in StoredFields}
    \cup {SavedArray(<<StoredSchedule(<<StoredCourse(StoredCourseId, f),
                                        StoredCourse(StoredCourseId + 1, g)>>)>>) :
              f \in StoredFields, g \in StoredFields}

\* ------------------------------------------------------------------ state
ScheduleIds == {schedules[i].id : i \in 1..Len(schedules)}

CourseIds ==
    UNION {{schedules[i].courses[j].id : j \in 1..Len(schedules[i].courses)} :
              i \in 1..Len(schedules)}

\* the schedule the current pointer designates, as index into schedules (0: none)
CurrentIndex == FindIndex(schedules, LAMBDA s : s.id = currentScheduleId)

CurrentCourses == IF CurrentIndex = 0 THEN <<>> ELSE schedules[CurrentIndex].courses

\* The last call made: its name, the id it was given (NoId when it takes
\* none), the id counter and the counts it worked with, the course or the
\* pending rename it was given (at most one each) and the error it threw
Op(name, arg, e) ==
    [op |-> name, arg |-> arg, args |-> <<>>, course |-> <<>>, call |-> <<>>,
     err |-> e]

OpArgs(name, args, e) == [Op(name, NoId, e) EXCEPT !.args = args]

OpCourse(name, c, e) == [Op(name, c.id, e) EXCEPT !.course = <<c>>]

OpCall(name, r, e) == [Op(name, r.scheduleId, e) EXCEPT !.call = <<r>>]

\* the first render: the useState initializers read what localStorage holds;
\* first is the record of that load
Load(saved, first) ==
    /\ schedules = loadSchedules(saved)
    /\ currentScheduleId = loadCurrentScheduleId(saved)
    /\ nextId = 1
    /\ inflight = <<>>
    /\ lastOp = first
    /\ scrapingReportHistory = <<>>
    /\ attempts = 0
    /\ lastParse = [call |-> "none"]

Init == \E saved \in SavedValues : Load(saved, Op("load", NoId, NoError))

\* ---------------------------------------------------------------- actions
\* Every action is one call made from an event handler that runs against the
\* latest render, so the closure's `schedules` is the current state.

CreateSchedule(name) ==
    /\ Len(schedules) < MaxSchedules
    /\ nextId <= MaxIds
    /\ schedules' = createSchedule(schedules, name, nextId)
    /\ currentScheduleId' = generateId(nextId)
    /\ nextId' = nextId + 1
    /\ lastOp' = Op("createSchedule", generateId(nextId), NoError)
    /\ UNCHANGED <<inflight, scrapeVars>>

\* App: useEffect(() => { if (schedules.length === 0) createSchedule('Mi Horario') })
AutoCreateEffect ==
    /\ Len(schedules) = 0
    /\ nextId <= MaxIds
    /\ schedules' = createSchedule(schedules, "Mi Horario", nextId)
    /\ currentScheduleId' = generateId(nextId)
    /\ nextId' = nextId + 1
    /\ lastOp' = Op("autoCreate", generateId(nextId), NoError)
    /\ UNCHANGED <<inflight, scrapeVars>>

\* deleteSchedule that leaves the current pointer alone
DeleteSchedule_keeppointer(id) ==
    /\ schedules' = deleteSchedule(schedules, id)
    /\ lastOp' = Op("deleteSchedule", id, NoError)
    /\ UNCHANGED <<currentScheduleId, nextId, inflight, scrapeVars>>

DeleteSchedule(id) ==
    LET newSchedules == deleteSchedule(schedules, id)
    IN  /\ schedules' = newSchedules
        /\ currentScheduleId' =
               IF currentScheduleId = id
               THEN (IF Len(newSchedules) > 0 THEN newSchedules[1].id ELSE NoId)
               ELSE currentScheduleId
        /\ lastOp' = Op("deleteSchedule", id, NoError)
        /\ UNCHANGED <<nextId, inflight, scrapeVars>>

\* ScheduleManager: onSwitchSchedule = setCurrentScheduleId on a listed schedule
SwitchSchedule(id) ==
    /\ currentScheduleId' = id
    /\ lastOp' = Op("switchSchedule", id, NoError)
    /\ UNCHANGED <<schedules, nextId, inflight, scrapeVars>>

RoomFor(k) == CurrentIndex = 0 \/ Len(CurrentCourses) + k <= MaxCourses

\* addCourse(course): the argument carries a fresh id and any isScheduled
AddCourse(p, sched) ==
    /\ nextId <= MaxIds
    /\ RoomFor(1)
    /\ schedules' = IF currentScheduleId = NoId THEN schedules
                    ELSE addCourse(schedules, currentScheduleId,
                                   MkCourse(generateId(nextId), p, sched))
    /\ nextId' = nextId + 1
    /\ lastOp' = Op("addCourse", generateId(nextId), NoError)
    /\ UNCHANGED <<currentScheduleId, inflight, scrapeVars>>

\* the courses a caller builds from a list of payloads and flags
NewCourses(ps, flags, n) ==
    [i \in 1..Len(ps) |-> MkCourse(generateId(n + i - 1), ps[i], flags[i])]

PayloadLists == {<<p>> : p \in Payloads} \cup {<<p, q>> : p \in Payloads, q \in Payloads}

FlagLists(k) == IF k = 1 THEN {<<b>> : b \in BOOLEAN}
                ELSE {<<b, c>> : b \in BOOLEAN, c \in BOOLEAN}

\* addCourses(newCourses) called with courses of any isScheduled
AddCourses(ps, flags) ==
    /\ nextId + Len(ps) - 1 <= MaxIds
    /\ RoomFor(Len(ps))
    /\ schedules' = IF currentScheduleId = NoId THEN schedules
                    ELSE addCourses(schedules, currentScheduleId,
                                    NewCourses(ps, flags, nextId))
    /\ nextId' = nextId + Len(ps)
    /\ lastOp' = OpArgs("addCourses", <<nextId, Len(ps)>>, NoError)
    /\ UNCHANGED <<currentScheduleId, inflight, scrapeVars>>

\* ImportHtmlModal.handleImport: every selected scraped course becomes a
\* Course with a fresh id and isScheduled false
handleImport(scraped, n) ==
    [i \in 1..Len(scraped) |-> MkCourse(generateId(n + i - 1), scraped[i], FALSE)]

\* handleImport -> onImport = App.handleHtmlImport -> addCourses
HandleImport(scraped) ==
    /\ nextId + Len(scraped) - 1 <= MaxIds
    /\ RoomFor(Len(scraped))
    /\ schedules' = IF currentScheduleId = NoId THEN schedules
                    ELSE addCourses(schedules, currentScheduleId,
                                    handleImport(scraped, nextId))
    /\ nextId' = nextId + Len(scraped)
    /\ lastOp' = OpArgs("handleImport", <<nextId, Len(scraped)>>, NoError)
    /\ UNCHANGED <<currentScheduleId, inflight, scrapeVars>>

UpdateCourse(updatedCourse) ==
    LET out == updateCourse(schedules, currentScheduleId, updatedCourse)
    IN  /\ schedules' = out.schedules
        /\ lastOp' = OpCourse("updateCourse", updatedCourse, out.error)
        /\ UNCHANGED <<currentScheduleId, nextId, inflight, scrapeVars>>

RemoveCourse(courseId) ==
    /\ schedules' = IF currentScheduleId = NoId THEN schedules
                    ELSE removeCourse(schedules, currentScheduleId, courseId)
    /\ lastOp' = Op("removeCourse", courseId, NoError)
    /\ UNCHANGED <<currentScheduleId, nextId, inflight, scrapeVars>>

ToggleCourseStatus(courseId) ==
    LET out == toggleCourseStatus(schedules, currentScheduleId, courseId)
    IN  /\ schedules' = out.schedules
        /\ lastOp' = Op("toggleCourseStatus", courseId, out.error)
        /\ UNCHANGED <<currentScheduleId, nextId, inflight, scrapeVars>>

ImportCourses(sourceScheduleId) ==
    LET out == importCourses(schedules, currentScheduleId, sourceScheduleId, nextId)
        added == IF CurrentIndex = 0 THEN 0
                 ELSE Len(out.schedules[CurrentIndex].courses) - Len(CurrentCourses)
    IN  /\ nextId + added - 1 <= MaxIds
        /\ Len(CurrentCourses) + added <= MaxCourses
        /\ schedules' = out.schedules
        /\ nextId' = nextId + added
        /\ lastOp' = OpArgs("importCourses", <<sourceScheduleId, nextId>>, out.error)
        /\ UNCHANGED <<currentScheduleId, inflight, scrapeVars>>

\* renameSchedule up to the await: snapshot, optimistic update
RenameStart(scheduleId, newName) ==
    /\ Len(inflight) < MaxInflight
    /\ inflight' = Append(inflight,
                          [scheduleId |-> scheduleId, newName |-> newName,
                           previousSchedules |-> renameSnapshot(schedules),
                           nameAtCall |-> schedules[FindIndex(schedules,
                                              LAMBDA s : s.id = scheduleId)].name])
    /\ schedules' = renameUpdate(schedules, scheduleId, newName)
    /\ lastOp' = Op("renameSchedule", scheduleId, NoError)
    /\ UNCHANGED <<currentScheduleId, nextId, scrapeVars>>

RemoveAt(s, k) == SubSeq(s, 1, k - 1) \o SubSeq(s, k + 1, Len(s))

\* the awaited confirmation succeeds: the promise resolves
RenameResolve(k) ==
    /\ inflight' = RemoveAt(inflight, k)
    /\ lastOp' = OpCall("renameResolved", inflight[k], NoError)
    /\ UNCHANGED <<schedules, currentScheduleId, nextId, scrapeVars>>

\* the awaited confirmation fails: catch block, rollback, rethrow
RenameReject(k, error) ==
    /\ inflight' = RemoveAt(inflight, k)
    /\ schedules' = renameRollback(schedules, inflight[k].previousSchedules)
    /\ lastOp' = OpCall("renameRejected", inflight[k], error)
    /\ UNCHANGED <<currentScheduleId, nextId, scrapeVars>>

CourseArgs ==
    {MkCourse(id, p, b) : id \in CourseIds, p \in Payloads, b \in BOOLEAN}

Next ==
    \/ \E name \in ScheduleNames : CreateSchedule(name)
    \/ AutoCreateEffect
    \/ \E id \in ScheduleIds : DeleteSchedule(id)
    \/ \E id \in ScheduleIds : SwitchSchedule(id)
    \/ \E p \in Payloads, b \in BOOLEAN : AddCourse(p, b)
    \/ \E ps \in PayloadLists : \E flags \in FlagLists(Len(ps)) : AddCourses(ps, flags)
    \/ \E scraped \in PayloadLists : HandleImport(scraped)
    \/ \E c \in CourseArgs : UpdateCourse(c)
    \/ \E id \in CourseIds : RemoveCourse(id)
    \/ \E id \in CourseIds : ToggleCourseStatus(id)
    \/ \E id \in ScheduleIds : ImportCourses(id)

Spec == Init /\ [][Next]_vars

\* The optimistic rename interleaved with the other mutations of the
\* collection: any call may run while a confirmation is awaited.
RenameNext ==
    \/ \E name \in ScheduleNames : CreateSchedule(name)
    \/ \E id \in ScheduleIds : DeleteSchedule(id)
    \/ AddCourse(PA, FALSE)
    \/ \E id \in CourseIds : RemoveCourse(id)
    \/ \E id \in CourseIds : ToggleCourseStatus(id)
    \/ \E id \in ScheduleIds, name \in ScheduleNames : RenameStart(id, name)
    \/ \E k \in 1..Len(inflight) : RenameResolve(k)
    \/ \E k \in 1..Len(inflight) : RenameReject(k, ServerError)

RenameSpec == Init /\ [][RenameNext]_vars

\* ------------------------------------------------- schedule name fields
\* the characters of a string, one by one
CharAt(str, i) == SubSeq(str, i, i)

Letters == "abcdefghijklmnopqrstuvwxyzABCDEFGHIJKLMNOPQRSTUVWXYZ"

DecimalDigits == "0123456789"

OneOf(ch, str) == \E i \in 1..Len(str) : CharAt(str, i) = ch

\* \s among the characters a text field holds
IsWhitespace(ch) == ch \in {" ", "\t"}

\* String.prototype.trim
RECURSIVE trimStart(_)
trimStart(str) ==
    IF Len(str) > 0 /\ IsWhitespace(CharAt(str, 1))
    THEN trimStart(SubSeq(str, 2, Len(str)))
    ELSE str

RECURSIVE trimEnd(_)
trimEnd(str) ==
    IF Len(str) > 0 /\ IsWhitespace(CharAt(str, Len(str)))
    THEN trimEnd(SubSeq(str, 1, Len(str) - 1))
    ELSE str

trim(str) == trimEnd(trimStart(str))

\* /[^a-zA-Z0-9\s-_]/.test(name)
HasSpecialCharacter(name) ==
    \E i \in 1..Len(name) :
        LET ch == CharAt(name, i)
        IN  ~(\/ OneOf(ch, Letters)
              \/ OneOf(ch, DecimalDigits)
              \/ IsWhitespace(ch)
              \/ ch \in {"-", "_"})

\* validateName: the reason the name is refused, or null
validateName(name) ==
    IF trim(name) = "" THEN <<"El nombre no puede estar vacío">>
    ELSE IF Len(name) < 3 THEN <<"Mínimo 3 caracteres">>
    ELSE IF Len(name) > 50 THEN <<"Máximo 50 caracteres">>
    ELSE IF HasSpecialCharacter(name) THEN <<"Sin caracteres especiales">>
    ELSE NoError

\* what a user may have typed into a name field
LongName == "Horario del primer semestre con todos los cursos 01"

TypedNames ==
    {"", "  ", "ab", "ab ", "Plan_B-2", "Horario@", LongName}

\* handleCreate: the form of the new schedule is submitted
HandleCreate(newName) ==
    /\ trim(newName) # ""
    /\ CreateSchedule(trim(newName))

\* saveEdit up to the await: validation, then renameSchedule with the trimmed name
SaveEdit(editingId, editName) ==
    LET error == validateName(editName)
    IN  IF error # NoError
        THEN /\ lastOp' = Op("saveEdit", editingId, error)
             /\ UNCHANGED <<schedules, currentScheduleId, nextId, inflight, scrapeVars>>
        ELSE RenameStart(editingId, trim(editName))

NameNext ==
    \/ AutoCreateEffect
    \/ \E name \in TypedNames : HandleCreate(name)
    \/ \E id \in ScheduleIds, name \in TypedNames : SaveEdit(id, name)
    \/ \E k \in 1..Len(inflight) : RenameResolve(k)
    \/ \E k \in 1..Len(inflight) : RenameReject(k, ServerError)

NameSpec == Init /\ [][NameNext]_vars

\* The bulk handlers of the course table next to the single-item calls.
\* Array.from(selectedCourseIds): distinct ids in selection order
IdLists ==
    {<<a>> : a \in CourseIds} \cup
    {ids \in {<<a, b>> : a \in CourseIds, b \in CourseIds} : ids[1] # ids[2]}

HandleBulkToggleStatus(courseIds) ==
    LET out == handleBulkToggleStatus(schedules, currentScheduleId, courseIds)
    IN  /\ schedules' = out.schedules
        /\ lastOp' = OpArgs("handleBulkToggleStatus", courseIds, out.error)
        /\ UNCHANGED <<currentScheduleId, nextId, inflight, scrapeVars>>

HandleBulkDelete(courseIds) ==
    LET out == handleBulkDelete(schedules, currentScheduleId, courseIds)
    IN  /\ schedules' = out.schedules
        /\ lastOp' = OpArgs("handleBulkDelete", courseIds, out.error)
        /\ UNCHANGED <<currentScheduleId, nextId, inflight, scrapeVars>>

BulkNext ==
    \/ AutoCreateEffect
    \/ \E p \in Payloads, b \in BOOLEAN : AddCourse(p, b)
    \/ \E id \in CourseIds : RemoveCourse(id)
    \/ \E id \in CourseIds : ToggleCourseStatus(id)
    \/ \E ids \in IdLists : HandleBulkToggleStatus(ids)
    \/ \E ids \in IdLists : HandleBulkDelete(ids)

BulkSpec == Init /\ [][BulkNext]_vars

\* The hook started on each stored collection, then used.
MigrateInit ==
    \E saved \in StoredValues :
        Load(saved, [Op("load", NoId, NoError) EXCEPT !.call = <<saved>>])

MigrateNext ==
    \/ AutoCreateEffect
    \/ \E id \in CourseIds : RemoveCourse(id)
    \/ \E id \in CourseIds : ToggleCourseStatus(id)
    \/ \E id \in ScheduleIds : DeleteSchedule(id)

MigrateSpec == MigrateInit /\ [][MigrateNext]_vars

\* ================================================================ scraper
\* scrapingService.ts.  A parsed document is a record of the DOM features
\* the selectors of the service look at:
\*   guia     a <div id="t_guia_horario"> is present
\*   table    where the schedule-guide <table> sits: "none", "inGuia"
\*            (inside the div) or "outside"
\*   tableId  that table carries id="tguiaHorario"
\*   windowPg that table is inside an element of class window_pg
\*   rows     the <tr> of the table's <tbody>, in document order
\*   cursos   the element with id="tBodyCursos": "none", "table" or "tbody"
\*   trs      the <tr> directly under it, in document order
\* Cell texts are sequences of text chunks, so that `${code}-${group}` and
\* `trH${rowId}` are concatenations.

STUDENT_PROFILE_ROOT_SELECTORS ==
    <<"#t_guia_horario", "#tguiaHorario", ".window_pg #tguiaHorario">>

MATRICULA_ROOT_SELECTORS == <<"#tBodyCursos", "table#tBodyCursos">>

STUDENT_PROFILE_TABLE_SELECTORS ==
    <<"#t_guia_horario table#tguiaHorario", "#t_guia_horario table",
      "table#tguiaHorario">>

STUDENT_PROFILE_ROW_SELECTORS ==
    <<"#t_guia_horario table tbody tr", "#tguiaHorario tbody tr">>

MATRICULA_ROW_SELECTORS ==
    <<"#tBodyCursos > tbody > tr[id]:not([id^=\"trH\"])",
      "#tBodyCursos tr[id]:not([id^=\"trH\"])">>

MATRICULA_GROUP_ROW_SELECTORS == <<".tableHorarios tbody tr", ".tableHorarios tr">>

MAX_REPORT_HISTORY == 25

DAYS == <<"Lunes", "Martes", "Miércoles", "Jueves", "Viernes", "Sábado", "Domingo">>

NotFinished == 0     \* finishedAt: ''

NoThrow == [name |-> "none"]

ScrapingStructureError(message, selectorsTried) ==
    [name |-> "ScrapingStructureError", code |-> "SCRAPING_STRUCTURE_NOT_FOUND",
     message |-> message, selectorsTried |-> selectorsTried]

ScrapingElementNotFoundError(message, elementType, selectorsTried) ==
    [name |-> "ScrapingElementNotFoundError", code |-> "SCRAPING_ELEMENT_NOT_FOUND",
     message |-> message, elementType |-> elementType,
     selectorsTried |-> selectorsTried]

\* <tr id=...> of the matricula table that the row selectors keep: an id
\* attribute that does not start with trH
IsPrimaryRow(tr) == tr.hasId /\ ~(Len(tr.id) > 0 /\ tr.id[1] = "trH")

\* document.querySelector(selector) finds an element
querySelector(doc, selector) ==
    CASE selector = "#t_guia_horario" -> doc.guia
      [] selector = "#tguiaHorario" -> doc.table # "none" /\ doc.tableId
      [] selector = ".window_pg #tguiaHorario" ->
             doc.table # "none" /\ doc.tableId /\ doc.windowPg
      [] selector = "#tBodyCursos" -> doc.cursos # "none"
      [] selector = "table#tBodyCursos" -> doc.cursos = "table"
      [] selector = "#t_guia_horario table#tguiaHorario" ->
             doc.guia /\ doc.table = "inGuia" /\ doc.tableId
      [] selector = "#t_guia_horario table" -> doc.guia /\ doc.table = "inGuia"
      [] selector = "table#tguiaHorario" -> doc.table # "none" /\ doc.tableId
      [] OTHER -> FALSE

\* document.querySelectorAll(selector) for the row selectors: the positions,
\* in doc.rows or doc.trs, of the rows found
querySelectorAll(doc, selector) ==
    CASE selector = STUDENT_PROFILE_ROW_SELECTORS[1] ->
             IF doc.guia /\ doc.table = "inGuia"
             THEN [i \in 1..Len(doc.rows) |-> i] ELSE <<>>
      [] selector = STUDENT_PROFILE_ROW_SELECTORS[2] ->
             IF doc.table # "none" /\ doc.tableId
             THEN [i \in 1..Len(doc.rows) |-> i] ELSE <<>>
      [] selector = MATRICULA_ROW_SELECTORS[1] ->
             IF doc.cursos = "table"
             THEN SelectSeq([i \in 1..Len(doc.trs) |-> i],
                            LAMBDA i : IsPrimaryRow(doc.trs[i]))
             ELSE <<>>
      [] selector = MATRICULA_ROW_SELECTORS[2] ->
             IF doc.cursos # "none"
             THEN SelectSeq([i \in 1..Len(doc.trs) |-> i],
                            LAMBDA i : IsPrimaryRow(doc.trs[i]))
             ELSE <<>>
      [] OTHER -> <<>>

\* the first selector that finds an element, "" when none does
findFirstMatchingSelector(doc, selectors) ==
    LET hits == {i \in 1..Len(selectors) : querySelector(doc, selectors[i])}
    IN  IF hits = {} THEN ""
        ELSE selectors[CHOOSE i \in hits : \A j \in hits : i <= j]

\* the first selector that finds rows, with the rows; selector "" when none
findRowsBySelectors(doc, selectors) ==
    LET hits == {i \in 1..Len(selectors) :
                     Len(querySelectorAll(doc, selectors[i])) > 0}
        first == CHOOSE i \in hits : \A j \in hits : i <= j
    IN  IF hits = {} THEN [selector |-> "", rows |-> <<>>]
        ELSE [selector |-> selectors[first],
              rows |-> querySelectorAll(doc, selectors[first])]

\* n: the number of this parse attempt; it stands for the id generateId()
\* hands out and for the clock reading of new Date()
createReport(n) ==
    [attemptId |-> generateId(n), startedAt |-> n, finishedAt |-> NotFinished,
     source |-> "unknown", selectorsMatched |-> <<>>, totalRows |-> 0,
     parsedCourses |-> 0, schedulesFound |-> 0, schedulesMissing |-> 0,
     scheduleAttempts |-> <<>>, issues |-> <<>>, logs |-> <<>>]

cloneReport(report) ==
    [report EXCEPT
        !.selectorsMatched = [i \in 1..Len(@) |-> @[i]],
        !.scheduleAttempts = [i \in 1..Len(@) |-> @[i]],
        !.issues = [i \in 1..Len(@) |-> @[i]],
        !.logs = [i \in 1..Len(@) |-> @[i]]]

\* a history that never gives up an entry
storeReportInHistory_nocap(history, report) == <<cloneReport(report)>> \o history

storeReportInHistory(history, report) ==
    LET unshifted == <<cloneReport(report)>> \o history
    IN  IF Len(unshifted) > MAX_REPORT_HISTORY
        THEN SubSeq(unshifted, 1, MAX_REPORT_HISTORY)
        ELSE unshifted

getScrapingReportHistory(history) == Map(history, cloneReport)

clearScrapingReportHistory(history) == <<>>

\* A scraping context is the report under construction together with the
\* entries handed to the caller's onLogEntry so far.
\* raised is the exception a callback of the caller threw inside the context and
\* nothing caught yet (NoThrow when there is none): the statements that would
\* follow it do not run.
createScrapingContext(n) ==
    [report |-> createReport(n), delivered |-> <<>>, raised |-> NoThrow]

\* what a failing callback of the caller throws
CallbackError == [name |-> "Error", message |-> "callback failed"]

Raised(ctx) == ctx.raised.name # "none"

\* a test of options.throwOnStructureError that takes an explicit false for
\* a request to throw
Truthy_defined(v) == v # "undefined"

\* options.throwOnStructureError is "undefined", "true" or "false";
\* options.onLogEntry says whether the caller passed a callback;
\* options.failing names the callback of the caller that throws when called
\* ("onLogEntry", or the logger's "info", "warn" or "error"), "none" when
\* every callback returns
Truthy(v) == v = "true"

log(ctx, options, level, event, message, metadata) ==
    LET entry == [timestamp |-> ctx.report.startedAt, level |-> level,
                  event |-> event, message |-> message, metadata |-> metadata]
        pushed == [ctx EXCEPT !.report.logs = Append(@, entry)]
        handed == IF options.onLogEntry
                  THEN [pushed EXCEPT !.delivered = Append(@, entry)]
                  ELSE pushed
    IN  IF Raised(ctx) THEN ctx
        ELSE IF options.onLogEntry /\ options.failing = "onLogEntry"
        THEN [handed EXCEPT !.raised = CallbackError]
        ELSE IF options.failing = level
        THEN [handed EXCEPT !.raised = CallbackError]
        ELSE handed

addIssue(ctx, options, issue, level) ==
    IF Raised(ctx) THEN ctx
    ELSE log([ctx EXCEPT !.report.issues = Append(@, issue)],
             options, level, issue.code, issue.message, issue.metadata)

\* a context that counts every attempt as found
addScheduleAttempt_allfound(ctx, attempt) ==
    [ctx EXCEPT !.report.scheduleAttempts = Append(@, attempt),
                !.report.schedulesFound = @ + 1]

addScheduleAttempt(ctx, attempt) ==
    IF Raised(ctx) THEN ctx ELSE
    [ctx EXCEPT !.report.scheduleAttempts = Append(@, attempt),
                !.report.schedulesFound = IF attempt.found THEN @ + 1 ELSE @,
                !.report.schedulesMissing = IF attempt.found THEN @ ELSE @ + 1]

addSelectorMatch(ctx, selector) ==
    IF Raised(ctx) THEN ctx
    ELSE IF Exists(ctx.report.selectorsMatched, LAMBDA s : s = selector) THEN ctx
    ELSE [ctx EXCEPT !.report.selectorsMatched = Append(@, selector)]

\* A day token as the pattern captures it, with its upper-case form and its
\* lower-case accent-free form
DayToken(raw, upper, comparable) ==
    [raw |-> raw, upper |-> upper, comparable |-> comparable]

NoDay == ""

\* DAY_NAME_MAP is an object literal: DAY_NAME_MAP["constructor"] is the
\* member it inherits from Object.prototype, the function Object, which is
\* truthy.  No other inherited member has a name that normalizeComparable
\* can return for a token of letters.
ObjectConstructor == "function Object() { [native code] }"

normalizeDay(rawDay) ==
    CASE rawDay.raw = "" -> NoDay
      [] rawDay.upper = "L" -> DAYS[1]
      [] rawDay.upper = "K" -> DAYS[2]
      [] rawDay.upper = "M" -> DAYS[3]
      [] rawDay.upper = "J" -> DAYS[4]
      [] rawDay.upper = "V" -> DAYS[5]
      [] rawDay.upper = "S" -> DAYS[6]
      [] rawDay.upper = "D" -> DAYS[7]
      [] rawDay.comparable = "lunes" -> DAYS[1]
      [] rawDay.comparable = "martes" -> DAYS[2]
      [] rawDay.comparable = "miercoles" -> DAYS[3]
      [] rawDay.comparable = "jueves" -> DAYS[4]
      [] rawDay.comparable = "viernes" -> DAYS[5]
      [] rawDay.comparable = "sabado" -> DAYS[6]
      [] rawDay.comparable = "domingo" -> DAYS[7]
      [] rawDay.comparable = "constructor" -> ObjectConstructor
      [] OTHER -> NoDay

NoTime == <<>>

\* n.toString().padStart(2, '0') for 0 <= n <= 99
PadStart2(n) == <<Digits[(n \div 10) + 1], Digits[(n % 10) + 1]>>

\* hour and minute are the numbers the one- or two-digit captures denote
parseNormalizedTime(hour, minute) ==
    IF hour < 0 \/ hour > 23 \/ minute < 0 \/ minute > 59 THEN NoTime
    ELSE PadStart2(hour) \o <<":">> \o PadStart2(minute)

\* A stretch of text the day+time pattern matches, as its five captures
TimeMatch(day, h1, m1, h2, m2) ==
    [day |-> day, startHour |-> h1, startMinute |-> m1,
     endHour |-> h2, endMinute |-> m2]

NoSession == [day |-> NoDay, startTime |-> NoTime, endTime |-> NoTime]

\* the session of one match, NoSession when a capture is not valid
SessionOfMatch(match) ==
    LET day == normalizeDay(match.day)
        startTime == parseNormalizedTime(match.startHour, match.startMinute)
        endTime == parseNormalizedTime(match.endHour, match.endMinute)
    IN  IF day = NoDay \/ startTime = NoTime \/ endTime = NoTime THEN NoSession
        ELSE [day |-> day, startTime |-> startTime, endTime |-> endTime]

\* A line is a record: matched says whether the whole line matches the
\* pattern, match holds the captures, text the line itself
parseSessionFromLine(line) ==
    IF line.text = "" \/ ~line.matched THEN NoSession
    ELSE SessionOfMatch(line.match)

\* A schedule cell is its text and the matches of the global pattern in it
parseProfileSchedule(rawSchedule) ==
    IF rawSchedule.text = "" THEN <<>>
    ELSE SelectSeq(Map(rawSchedule.matches, SessionOfMatch),
                   LAMBDA s : s # NoSession)

RECURSIVE MatriculaSessions(_, _)
MatriculaSessions(lines, i) ==
    IF i > Len(lines) THEN <<>>
    ELSE LET parsed == parseSessionFromLine(lines[i])
             classroom == IF i + 1 <= Len(lines)
                             /\ parseSessionFromLine(lines[i + 1]) = NoSession
                          THEN lines[i + 1].text ELSE "Sin aula"
         IN  IF parsed = NoSession THEN MatriculaSessions(lines, i + 1)
             ELSE <<[day |-> parsed.day, startTime |-> parsed.startTime,
                     endTime |-> parsed.endTime, classroom |-> classroom]>>
                  \o MatriculaSessions(lines, i + 1)

\* the cell's markup is given as its non-empty normalized lines
parseMatriculaSchedule(lines) == MatriculaSessions(lines, 1)

addUniqueSession(sessions, session) ==
    IF Exists(sessions, LAMBDA existing :
                  /\ existing.day = session.day
                  /\ existing.startTime = session.startTime
                  /\ existing.endTime = session.endTime)
    THEN sessions
    ELSE Append(sessions, session)

HEADER_ALIASES ==
    [code |-> <<"codigo">>, name |-> <<"materia", "curso">>, group |-> <<"grupo">>,
     credits |-> <<"creditos">>, schedule |-> <<"horario">>, classroom |-> <<"aula">>,
     professor |-> <<"profesor">>, quota |-> <<"cupo">>,
     status |-> <<"tipo grupo", "estado">>, reserved |-> <<"reservados", "reservado">>]

\* text.includes(part)
includes(text, part) ==
    \E i \in 1..(Len(text) - Len(part) + 1) : SubSeq(text, i, i + Len(part) - 1) = part

Undefined == -1     \* a key of the column map that is not set; a cell not found

\* headers: the normalized texts of the table's thead cells, in order.  The
\* map gives each key the index (from 0) of the first header that includes
\* one of its aliases.
buildColumnMap(headers) ==
    LET F[k \in 0..Len(headers)] ==
            IF k = 0 THEN [key \in DOMAIN HEADER_ALIASES |-> Undefined]
            ELSE [key \in DOMAIN HEADER_ALIASES |->
                     IF F[k - 1][key] # Undefined THEN F[k - 1][key]
                     ELSE IF Exists(HEADER_ALIASES[key],
                                    LAMBDA alias : includes(headers[k], alias))
                     THEN k - 1
                     ELSE Undefined]
    IN  F[Len(headers)]

\* the index (from 0) of the cell the lookup returns in a row of cellCount
\* <td>, Undefined for null.  The rows carry no class attribute and no nested
\* cell, so the fallback selectors find nothing the indices did not.
getCellFromRow(cellCount, columnIndex, fallbackIndex) ==
    IF columnIndex # Undefined /\ columnIndex < cellCount THEN columnIndex
    ELSE IF fallbackIndex < cellCount THEN fallbackIndex
    ELSE Undefined

\* String concatenation of the chunks of a text
JoinChunks(chunks) ==
    LET F[k \in 0..Len(chunks)] == IF k = 0 THEN "" ELSE F[k - 1] \o chunks[k]
    IN  F[Len(chunks)]

\* cell.textContent, normalized, of the cell that holds a field of a row
FieldChunks(row, field) ==
    CASE field = "code" -> row.code
      [] field = "name" -> row.name
      [] field = "group" -> row.group
      [] field = "professor" -> row.professor
      [] field = "classroom" -> IF row.classroom = "" THEN <<>> ELSE <<row.classroom>>
      [] field = "schedule" -> IF row.schedule.text = "" THEN <<>>
                               ELSE <<row.schedule.text>>
      [] field = "credits" -> <<"3">>
      [] field = "quota" -> <<"25">>
      [] field = "status" -> <<"Semipresencial">>
      [] field = "reserved" -> <<"1">>
      [] OTHER -> <<>>

\* normalizeWhitespace(cell?.textContent) || default, for the cell at an
\* index of a row whose cells hold the fields of layout, in that order
CellText(row, layout, index, default) ==
    LET text == IF index = Undefined THEN <<>> ELSE FieldChunks(row, layout[index + 1])
    IN  IF text # <<>> THEN text ELSE default

\* the schedule text of the cell at an index with the matches of the
\* day+time pattern in it: only the text of a schedule cell has any
CellSchedule(row, layout, index) ==
    IF index # Undefined /\ layout[index + 1] = "schedule" THEN row.schedule
    ELSE [text |-> JoinChunks(CellText(row, layout, index, <<>>)), matches |-> <<>>]

\* rows.forEach body of parseStudentProfile.  acc.courseMap keeps the Map's
\* entries in insertion order.
ProfileRow(row, layout, columnMap, rowIndex, acc, options) ==
    LET code == CellText(row, layout, getCellFromRow(row.cells, columnMap.code, 0),
                         <<"Desconocido">>)
        name == CellText(row, layout, getCellFromRow(row.cells, columnMap.name, 1),
                         <<"Desconocido">>)
        group == CellText(row, layout, getCellFromRow(row.cells, columnMap.group, 2),
                          <<"0">>)
        scheduleText == CellSchedule(row, layout,
                            getCellFromRow(row.cells, columnMap.schedule, 4))
        classroom == JoinChunks(CellText(row, layout,
                         getCellFromRow(row.cells, columnMap.classroom, 5),
                         <<"Sin aula">>))
        professor == CellText(row, layout,
                              getCellFromRow(row.cells, columnMap.professor, 6),
                              <<"Por asignar">>)
        courseKey == code \o <<"-">> \o group
        at == FindIndex(acc.courseMap, LAMBDA e : e.key = courseKey)
        fresh == [originalCode |-> code, name |-> name, campus |-> "Cartago",
                  group |-> group, professor |-> professor, sessions |-> <<>>]
        known == acc.courseMap[at].course
        merged == IF known.professor # professor
                     /\ professor # <<"Por asignar">>
                     /\ ~(Len(professor) = 1
                          /\ Exists(known.professor, LAMBDA p : p = professor[1]))
                  THEN [known EXCEPT !.professor = @ \o professor]
                  ELSE known
        course == IF at = 0 THEN fresh ELSE merged
        parsedSessions == parseProfileSchedule(scheduleText)
        attempt == [source |-> "student-profile", courseCode |-> code,
                    courseName |-> name, group |-> group,
                    selector |-> "profile.schedule.column",
                    rawSchedule |-> scheduleText.text,
                    parsedSessions |-> Len(parsedSessions),
                    found |-> Len(parsedSessions) > 0,
                    reason |-> IF Len(parsedSessions) > 0 THEN ""
                               ELSE IF scheduleText.text # ""
                               THEN "Formato no reconocido" ELSE "Horario vacio"]
        AddAll[k \in 0..Len(parsedSessions)] ==
            IF k = 0 THEN course.sessions
            ELSE addUniqueSession(AddAll[k - 1],
                     [day |-> parsedSessions[k].day,
                      startTime |-> parsedSessions[k].startTime,
                      endTime |-> parsedSessions[k].endTime,
                      classroom |-> classroom])
        entry == [key |-> courseKey,
                  course |-> [course EXCEPT !.sessions = AddAll[Len(parsedSessions)]]]
    IN  IF row.cells < 5
        THEN [acc EXCEPT !.ctx = addIssue(@, options,
                  [code |-> "SCRAPING_ROW_SKIPPED",
                   message |-> "Fila de expediente omitida por estructura incompleta.",
                   metadata |-> [rowIndex |-> rowIndex, cellCount |-> row.cells]],
                  "warn")]
        ELSE [courseMap |-> IF at = 0 THEN Append(acc.courseMap, entry)
                            ELSE [acc.courseMap EXCEPT ![at] = entry],
              ctx |-> addScheduleAttempt(acc.ctx, attempt)]

\* rows.forEach of parseStudentProfile that ends at the first incomplete row
RECURSIVE ProfileRows_untilshort(_, _, _, _, _)
ProfileRows_untilshort(doc, rows, i, acc, options) ==
    IF i > Len(rows) THEN acc
    ELSE LET after == ProfileRow(doc.rows[rows[i]], doc.layout,
                                 buildColumnMap(doc.headers), i - 1, acc, options)
         IN  IF doc.rows[rows[i]].cells < 5 THEN after
             ELSE ProfileRows_untilshort(doc, rows, i + 1, after, options)

RECURSIVE ProfileRows(_, _, _, _, _)
ProfileRows(doc, rows, i, acc, options) ==
    IF i > Len(rows) THEN acc
    ELSE ProfileRows(doc, rows, i + 1,
                     ProfileRow(doc.rows[rows[i]], doc.layout,
                                buildColumnMap(doc.headers), i - 1, acc, options),
                     options)

parseStudentProfile(doc, ctx, options) ==
    LET tableMatch == findFirstMatchingSelector(doc, STUDENT_PROFILE_TABLE_SELECTORS)
        rowsMatch == findRowsBySelectors(doc, STUDENT_PROFILE_ROW_SELECTORS)
        withTable == addSelectorMatch(ctx, tableMatch)
        withRows == [addSelectorMatch(withTable, rowsMatch.selector)
                        EXCEPT !.report.totalRows = Len(rowsMatch.rows)]
        out == ProfileRows(doc, rowsMatch.rows, 1,
                           [courseMap |-> <<>>, ctx |-> withRows], options)
    IN  IF tableMatch = ""
        THEN [thrown |-> ScrapingElementNotFoundError(
                             "No se encontro la tabla de guia de horario para expediente.",
                             "student_profile_table", STUDENT_PROFILE_TABLE_SELECTORS),
              courses |-> <<>>, ctx |-> ctx]
        ELSE IF rowsMatch.selector = ""
        THEN [thrown |-> ScrapingElementNotFoundError(
                             "No se encontraron filas de cursos en la guia de horario.",
                             "student_profile_rows", STUDENT_PROFILE_ROW_SELECTORS),
              courses |-> <<>>, ctx |-> withTable]
        ELSE [thrown |-> NoThrow,
              courses |-> Map(out.courseMap, LAMBDA e : e.course),
              ctx |-> out.ctx]

\* doc.getElementById(id) among the rows of the matricula table: the
\* position of the first row with that id, 0 when there is none
getElementById(doc, id) == FindIndex(doc.trs, LAMBDA tr : tr.hasId /\ tr.id = id)

\* row.nextElementSibling, 0 when the row is the last one
nextElementSibling(doc, i) == IF i < Len(doc.trs) THEN i + 1 ELSE 0

\* groupRows.forEach body of parseMatricula
MatriculaGroupRow(groupRow, code, name, acc) ==
    LET sessions == parseMatriculaSchedule(groupRow.lines)
        attempt == [source |-> "matricula", courseCode |-> code,
                    courseName |-> name, group |-> groupRow.group,
                    selector |-> "matricula.colHoHorario",
                    rawSchedule |-> groupRow.text,
                    parsedSessions |-> Len(sessions),
                    found |-> Len(sessions) > 0,
                    reason |-> IF Len(sessions) > 0 THEN ""
                               ELSE IF groupRow.text # ""
                               THEN "Formato no reconocido" ELSE "Horario vacio"]
    IN  [courses |-> Append(acc.courses,
                            [originalCode |-> code, name |-> name,
                             campus |-> groupRow.campus, group |-> groupRow.group,
                             professor |-> IF groupRow.professor = <<>>
                                           THEN <<"Por asignar">>
                                           ELSE groupRow.professor,
                             sessions |-> sessions]),
         ctx |-> addScheduleAttempt(acc.ctx, attempt)]

RECURSIVE MatriculaGroupRows(_, _, _, _, _)
MatriculaGroupRows(groupRows, i, code, name, acc) ==
    IF i > Len(groupRows) THEN acc
    ELSE MatriculaGroupRows(groupRows, i + 1, code, name,
                            MatriculaGroupRow(groupRows[i], code, name, acc))

\* rows.forEach body of parseMatricula; pos is the row's position in doc.trs
MatriculaRow(doc, pos, rowIndex, acc, options) ==
    LET row == doc.trs[pos]
        rowId == row.id
        code == IF row.code # <<>> THEN row.code ELSE rowId
        rawName == IF row.name # <<>> THEN row.name ELSE <<"Desconocido">>
        name == code \o <<" ">> \o rawName
        byId == getElementById(doc, <<"trH">> \o rowId)
        detailRow == IF byId # 0 THEN byId ELSE nextElementSibling(doc, pos)
        groupRows == doc.trs[detailRow].groups
    IN  IF rowId = <<>> THEN acc
        ELSE IF detailRow = 0
        THEN [acc EXCEPT !.ctx = addIssue(@, options,
                  [code |-> "SCRAPING_DETAIL_ROW_NOT_FOUND",
                   message |-> "No se encontro fila de detalle para un curso de matricula.",
                   metadata |-> [rowIndex |-> rowIndex, courseCode |-> code,
                                 detailRowId |-> <<"trH">> \o rowId]],
                  "warn")]
        ELSE IF Len(groupRows) = 0
        THEN [acc EXCEPT !.ctx = addIssue(@, options,
                  [code |-> "SCRAPING_GROUP_ROWS_NOT_FOUND",
                   message |-> "No se encontraron filas de grupos en el detalle de matricula.",
                   metadata |-> [rowIndex |-> rowIndex, courseCode |-> code]],
                  "warn")]
        ELSE MatriculaGroupRows(groupRows, 1, code, name,
                 [acc EXCEPT !.ctx = addSelectorMatch(@,
                      "detail:" \o MATRICULA_GROUP_ROW_SELECTORS[1])])

RECURSIVE MatriculaRows(_, _, _, _, _)
MatriculaRows(doc, rows, i, acc, options) ==
    IF i > Len(rows) THEN acc
    ELSE MatriculaRows(doc, rows, i + 1,
                       MatriculaRow(doc, rows[i], i - 1, acc, options), options)

parseMatricula(doc, ctx, options) ==
    LET rowsMatch == findRowsBySelectors(doc, MATRICULA_ROW_SELECTORS)
        withRows == [addSelectorMatch(ctx, rowsMatch.selector)
                        EXCEPT !.report.totalRows = Len(rowsMatch.rows)]
        out == MatriculaRows(doc, rowsMatch.rows, 1,
                             [courses |-> <<>>, ctx |-> withRows], options)
    IN  IF rowsMatch.selector = ""
        THEN [thrown |-> ScrapingElementNotFoundError(
                             "No se encontraron filas principales de cursos en matricula.",
                             "matricula_rows", MATRICULA_ROW_SELECTORS),
              courses |-> <<>>, ctx |-> ctx]
        ELSE [thrown |-> NoThrow, courses |-> out.courses, ctx |-> out.ctx]

\* The try block of parseTecHtmlWithReport: what it threw (NoThrow when it
\* completed), the courses assigned and the context it leaves
DetectAndExtract(doc, options, started) ==
    LET studentProfileRoot ==
            findFirstMatchingSelector(doc, STUDENT_PROFILE_ROOT_SELECTORS)
        matriculaRoot == findFirstMatchingSelector(doc, MATRICULA_ROOT_SELECTORS)
    IN  IF studentProfileRoot # ""
        THEN parseStudentProfile(doc,
                 addSelectorMatch([started EXCEPT !.report.source = "student-profile"],
                                  studentProfileRoot),
                 options)
        ELSE IF matriculaRoot # ""
        THEN parseMatricula(doc,
                 addSelectorMatch([started EXCEPT !.report.source = "matricula"],
                                  matriculaRoot),
                 options)
        ELSE [thrown |-> ScrapingStructureError(
                             "No se encontro estructura compatible para scraping (ni expediente ni matricula).",
                             STUDENT_PROFILE_ROOT_SELECTORS \o MATRICULA_ROOT_SELECTORS),
              courses |-> <<>>, ctx |-> started]

\* an exception a callback raised inside the try block ends the block there:
\* it is what the block threw, and courses is still []
Unwind(tried) ==
    IF Raised(tried.ctx)
    THEN [thrown |-> tried.ctx.raised, courses |-> <<>>,
          ctx |-> [tried.ctx EXCEPT !.raised = NoThrow]]
    ELSE tried

\* an exception raised outside the try block leaves the call
Propagate(ctx, history) ==
    [returned |-> FALSE, thrown |-> ctx.raised, context |-> ctx.report,
     delivered |-> ctx.delivered, history |-> history]

\* The catch block up to its rethrow: the context with the issue of the
\* caught error
CatchBlock(error, ctx, options) ==
    CASE error.name = "none" -> ctx
      [] error.name = "ScrapingStructureError" ->
             addIssue(ctx, options,
                      [code |-> error.code, message |-> error.message,
                       metadata |-> [selectorsTried |-> error.selectorsTried]],
                      "error")
      [] error.name = "ScrapingElementNotFoundError" ->
             addIssue(ctx, options,
                      [code |-> error.code, message |-> error.message,
                       metadata |-> [elementType |-> error.elementType,
                                     selectorsTried |-> error.selectorsTried]],
                      "warn")
      [] OTHER ->
             addIssue(ctx, options,
                      [code |-> "SCRAPING_UNEXPECTED_ERROR", message |-> error.message,
                       metadata |-> [name |-> error.name]],
                      "error")

\* the statements after the try/catch, on the context with the counts set
FinishAttempt(counted, courses, options, history) ==
    LET finished == log(counted, options, "info", "SCRAPING_ATTEMPT_FINISHED",
                        "Fin de intento de scraping.",
                        [source |-> counted.report.source,
                         totalRows |-> counted.report.totalRows,
                         parsedCourses |-> counted.report.parsedCourses,
                         schedulesFound |-> counted.report.schedulesFound,
                         schedulesMissing |-> counted.report.schedulesMissing])
    IN  IF Raised(finished) THEN Propagate(finished, history)
        ELSE [returned |-> TRUE, thrown |-> NoThrow, courses |-> courses,
              report |-> cloneReport(finished.report),
              context |-> finished.report, delivered |-> finished.delivered,
              history |-> storeReportInHistory(history, finished.report)]

\* the catch block's rethrow, or the rest of the call
CatchAndFinish(error, courses, caught, options, n, history) ==
    IF Raised(caught) THEN Propagate(caught, history)
    ELSE IF error.name = "ScrapingStructureError" /\ Truthy(options.throwOnStructureError)
    THEN [returned |-> FALSE, thrown |-> error, context |-> caught.report,
          delivered |-> caught.delivered, history |-> history]
    ELSE FinishAttempt([caught EXCEPT !.report.parsedCourses = Len(courses),
                                      !.report.finishedAt = n],
                       courses, options, history)

AfterTry(tried, options, n, history) ==
    CatchAndFinish(tried.thrown, tried.courses,
                   CatchBlock(tried.thrown, tried.ctx, options), options, n, history)

\* parseTecHtmlWithReport(htmlContent, options) on the document DOMParser
\* builds from htmlContent, as call number n, with the history it finds.
\* returned says whether the call returned (courses and a copy of the
\* report) or threw (thrown); context is the report of the call's scraping
\* context when the call ended, delivered the entries onLogEntry received.
StartAttempt(doc, options, n) ==
    log(createScrapingContext(n), options, "info",
        "SCRAPING_ATTEMPT_STARTED", "Inicio de intento de scraping.",
        [inputLength |-> doc.inputLength])

\* the try block on the context the start of the call leaves
TryBlock(doc, options, started) == Unwind(DetectAndExtract(doc, options, started))

StartedAttempt(doc, options, n, history, started) ==
    IF Raised(started) THEN Propagate(started, history)
    ELSE AfterTry(TryBlock(doc, options, started), options, n, history)

parseTecHtmlWithReport(doc, options, n, history) ==
    StartedAttempt(doc, options, n, history, StartAttempt(doc, options, n))

\* -------------------------------------------------------------- documents
DayL == DayToken("L", "L", "l")
DayJ == DayToken("J", "J", "j")
DayLunes == DayToken("Lunes", "LUNES", "lunes")
DayX == DayToken("X", "X", "x")
DayK == DayToken("K", "K", "k")
DayConstructor == DayToken("constructor", "CONSTRUCTOR", "constructor")

NoMatch == TimeMatch(DayToken("", "", ""), 0, 0, 0, 0)

TimeLine(text, match) == [text |-> text, matched |-> TRUE, match |-> match]

TextLine(text) == [text |-> text, matched |-> FALSE, match |-> NoMatch]

ProfileRowOf(cells, code, group, professor, text, matches) ==
    [cells |-> cells, code |-> code, name |-> <<"Curso">>, group |-> group,
     professor |-> professor, classroom |-> "B1-10",
     schedule |-> [text |-> text, matches |-> matches]]

RowFound == ProfileRowOf(11, <<"AE2705">>, <<"05">>, <<"Docente A">>,
                         "Lunes - 18:0:21:50", <<TimeMatch(DayLunes, 18, 0, 21, 50)>>)

RowOtherProfessor == ProfileRowOf(11, <<"AE2705">>, <<"05">>, <<"Docente B">>,
                                  "Lunes - 18:0:21:50",
                                  <<TimeMatch(DayLunes, 18, 0, 21, 50)>>)

RowUnrecognized == ProfileRowOf(11, <<"AE3128">>, <<"05">>, <<"Docente B">>,
                                "Horario pendiente", <<>>)

RowBadHour == ProfileRowOf(11, <<"AE3128">>, <<"06">>, <<>>,
                           "X 25:00-26:00 J 7:5-9:00",
                           <<TimeMatch(DayX, 25, 0, 26, 0), TimeMatch(DayJ, 7, 5, 9, 0)>>)

RowShort == ProfileRowOf(3, <<"AE9999">>, <<"01">>, <<>>, "", <<>>)

\* two rows of different courses: code AE-1 with group 2, code AE with
\* group 1-2
RowHyphenCode == ProfileRowOf(11, <<"AE", "-", "1">>, <<"2">>, <<"Docente A">>,
                              "L 07:30-09:20", <<TimeMatch(DayL, 7, 30, 9, 20)>>)

RowHyphenGroup == ProfileRowOf(11, <<"AE">>, <<"1", "-", "2">>, <<"Docente B">>,
                               "J 13:00-14:50", <<TimeMatch(DayJ, 13, 0, 14, 50)>>)

\* the order of the columns of the schedule guide as the positional indices
\* of the extractor expect it
DefaultLayout ==
    <<"code", "name", "group", "credits", "schedule", "classroom", "professor",
      "quota", "other", "status", "reserved">>

EmptyDoc ==
    [inputLength |-> 0, guia |-> FALSE, table |-> "none", tableId |-> FALSE,
     windowPg |-> FALSE, headers |-> <<>>, layout |-> DefaultLayout,
     rows |-> <<>>, cursos |-> "none", trs |-> <<>>]

\* '<div><p>HTML sin tablas esperadas</p></div>'
DocNone == [EmptyDoc EXCEPT !.inputLength = 43]

ProfileDoc(rows) ==
    [EmptyDoc EXCEPT !.inputLength = 100 + Len(rows), !.guia = TRUE,
                     !.table = "inGuia", !.tableId = TRUE, !.rows = rows]

DocProfile == ProfileDoc(<<RowFound, RowUnrecognized>>)

DocProfileMerge == ProfileDoc(<<RowFound, RowShort, RowOtherProfessor, RowBadHour>>)

DocProfileHyphens == ProfileDoc(<<RowHyphenCode, RowHyphenGroup>>)

\* a table of ten columns with a header row, in the order Materia, Codigo,
\* Horario, Grupo, Creditos, Aula, Profesor, Cupo, Tipo Grupo, Reservados
RowTen == ProfileRowOf(10, <<"AE2125">>, <<"05">>, <<"Docente Prueba">>,
                       "Miercoles - 8:5:10:0",
                       <<TimeMatch(DayToken("Miercoles", "MIERCOLES", "miercoles"),
                                   8, 5, 10, 0)>>)

DocProfileHeaders ==
    [ProfileDoc(<<RowTen>>) EXCEPT
        !.headers = <<"materia", "codigo", "horario", "grupo", "creditos", "aula",
                      "profesor", "cupo", "tipo grupo", "reservados">>,
        !.layout = <<"name", "code", "schedule", "group", "credits", "classroom",
                     "professor", "quota", "status", "reserved">>]

\* the same table with the Tipo Grupo column moved to the front
DocProfileStatusFirst ==
    [ProfileDoc(<<RowTen>>) EXCEPT
        !.headers = <<"tipo grupo", "materia", "codigo", "horario", "grupo",
                      "creditos", "aula", "profesor", "cupo", "reservados">>,
        !.layout = <<"status", "name", "code", "schedule", "group", "credits",
                     "classroom", "professor", "quota", "reserved">>]

DocProfileNoRows == ProfileDoc(<<>>)

DocProfileNoTable == [EmptyDoc EXCEPT !.inputLength = 30, !.guia = TRUE]

\* the table alone, inside an element of class window_pg
DocProfileWindow ==
    [EmptyDoc EXCEPT !.inputLength = 90, !.table = "outside", !.tableId = TRUE,
                     !.windowPg = TRUE, !.rows = <<RowFound>>]

GroupRowOf(group, professor, text, lines) ==
    [campus |-> "Cartago", group |-> group, professor |-> professor,
     text |-> text, lines |-> lines]

GroupTwoSessions ==
    GroupRowOf(<<"1">>, <<"Profesor A">>, "L 07:30-10:20 B1-07 J 11:0-12:50 B2-01",
               <<TimeLine("L 07:30-10:20", TimeMatch(DayL, 7, 30, 10, 20)),
                 TextLine("B1-07"),
                 TimeLine("J 11:0-12:50", TimeMatch(DayJ, 11, 0, 12, 50)),
                 TextLine("B2-01")>>)

GroupNoSchedule == GroupRowOf(<<"2">>, <<>>, "", <<>>)

\* time lines followed by another time line, by a classroom, by nothing,
\* and lines that follow no time line
GroupMixedLines ==
    GroupRowOf(<<"3">>, <<"Profesor B">>,
               "Virtual L 07:30-09:20 K 9:30-11:20 B3 Edificio B J 13:00-14:50",
               <<TextLine("Virtual"),
                 TimeLine("L 07:30-09:20", TimeMatch(DayL, 7, 30, 9, 20)),
                 TimeLine("K 9:30-11:20", TimeMatch(DayK, 9, 30, 11, 20)),
                 TextLine("B3"),
                 TextLine("Edificio B"),
                 TimeLine("J 13:00-14:50", TimeMatch(DayJ, 13, 0, 14, 50))>>)

\* a time line followed by a line of the same shape with an hour out of range
GroupBadHour ==
    GroupRowOf(<<"4">>, <<"Profesor C">>, "L 07:30-09:20 X 25:00-26:00",
               <<TimeLine("L 07:30-09:20", TimeMatch(DayL, 7, 30, 9, 20)),
                 TimeLine("X 25:00-26:00", TimeMatch(DayX, 25, 0, 26, 0))>>)

\* a line of the shape of a time line whose day token is the word constructor
GroupConstructor ==
    GroupRowOf(<<"5">>, <<"Profesor D">>, "constructor 8:00-9:50 B5",
               <<TimeLine("constructor 8:00-9:50", TimeMatch(DayConstructor, 8, 0, 9, 50)),
                 TextLine("B5")>>)

\* the same day and hours on two lines of one cell, in two classrooms
GroupRepeated ==
    GroupRowOf(<<"6">>, <<"Profesor E">>, "L 07:30-09:20 B1 L 07:30-09:20 LAB2",
               <<TimeLine("L 07:30-09:20", TimeMatch(DayL, 7, 30, 9, 20)),
                 TextLine("B1"),
                 TimeLine("L 07:30-09:20", TimeMatch(DayL, 7, 30, 9, 20)),
                 TextLine("LAB2")>>)

\* hours that end before they start
GroupReversed ==
    GroupRowOf(<<"7">>, <<"Profesor F">>, "L 10:00-08:00 B7",
               <<TimeLine("L 10:00-08:00", TimeMatch(DayL, 10, 0, 8, 0)),
                 TextLine("B7")>>)

PrimaryTr(id) ==
    [hasId |-> TRUE, id |-> id, code |-> id, name |-> <<"Ingles I">>, groups |-> <<>>]

DetailTr(id, groups) ==
    [hasId |-> TRUE, id |-> <<"trH">> \o id, code |-> <<>>, name |-> <<>>,
     groups |-> groups]

MatriculaDoc(cursos, trs) ==
    [EmptyDoc EXCEPT !.inputLength = 200 + Len(trs), !.cursos = cursos, !.trs = trs]

DocMatricula ==
    MatriculaDoc("table", <<PrimaryTr(<<"CI1230">>),
                            DetailTr(<<"CI1230">>, <<GroupTwoSessions, GroupNoSchedule>>)>>)

\* the first course has no detail row of its own, the second has one
DocMatriculaOrphan ==
    MatriculaDoc("tbody", <<PrimaryTr(<<"MA0101">>), PrimaryTr(<<"CI1230">>),
                            DetailTr(<<"CI1230">>, <<GroupTwoSessions>>)>>)

DocMatriculaLines ==
    MatriculaDoc("table", <<PrimaryTr(<<"CI1230">>),
                            DetailTr(<<"CI1230">>, <<GroupMixedLines>>)>>)

DocMatriculaOddLines ==
    MatriculaDoc("table", <<PrimaryTr(<<"CI1230">>),
                            DetailTr(<<"CI1230">>, <<GroupBadHour, GroupConstructor>>)>>)

DocMatriculaRepeated ==
    MatriculaDoc("table", <<PrimaryTr(<<"CI1230">>),
                            DetailTr(<<"CI1230">>, <<GroupRepeated, GroupReversed>>)>>)

\* the detail row of the second course stands before its primary row, right
\* after the first course, which has no detail row of its own
DocMatriculaMisplaced ==
    MatriculaDoc("table", <<PrimaryTr(<<"MA0101">>),
                            DetailTr(<<"CI1230">>, <<GroupTwoSessions>>),
                            PrimaryTr(<<"CI1230">>)>>)

DocMatriculaNoRows == MatriculaDoc("table", <<>>)

\* a table with course rows that carries none of the known ids
DocPlainTable ==
    [EmptyDoc EXCEPT !.inputLength = 80, !.table = "outside", !.rows = <<RowFound>>]

\* both roots in one document
DocBoth ==
    [DocProfile EXCEPT !.cursos = "table",
                       !.trs = <<PrimaryTr(<<"CI1230">>),
                                 DetailTr(<<"CI1230">>, <<GroupTwoSessions>>)>>]

Documents ==
    {DocNone, DocPlainTable, DocProfile, DocProfileMerge, DocProfileHyphens,
     DocProfileHeaders, DocProfileStatusFirst,
     DocProfileNoRows, DocProfileNoTable,
     DocProfileWindow, DocMatricula, DocMatriculaOrphan, DocMatriculaLines,
     DocMatriculaOddLines, DocMatriculaRepeated, DocMatriculaMisplaced,
     DocMatriculaNoRows, DocBoth}

ParseOptions ==
    [onLogEntry : BOOLEAN, throwOnStructureError : {"undefined", "true", "false"},
     failing : {"none"}]

\* ---------------------------------------------------------------- actions
\* parseTecHtmlWithReport(html, options), while fewer than limit calls have
\* been made
ParseWithin(doc, options, limit) ==
    LET out == parseTecHtmlWithReport(doc, options, attempts + 1, scrapingReportHistory)
    IN  /\ attempts < limit
        /\ attempts' = attempts + 1
        /\ scrapingReportHistory' = out.history
        /\ lastParse' = [call |-> "parseTecHtmlWithReport", doc |-> doc,
                         options |-> options, out |-> out]
        /\ UNCHANGED schedVars

\* parseTecHtmlWithReport(html, options)
ParseTecHtmlWithReport(doc, options) == ParseWithin(doc, options, MaxAttempts)

\* what parseTecHtml hands on of a result: the courses
CoursesOnly(result) ==
    IF result.returned
    THEN [returned |-> TRUE, thrown |-> NoThrow, courses |-> result.courses,
          context |-> result.context, delivered |-> result.delivered,
          history |-> result.history]
    ELSE result

\* parseTecHtml(html, options)
parseTecHtml(doc, options, n, history) ==
    CoursesOnly(parseTecHtmlWithReport(doc, options, n, history))

\* options = {}
DefaultOptions ==
    [onLogEntry |-> FALSE, throwOnStructureError |-> "undefined", failing |-> "none"]

\* ImportHtmlModal.processHtml: parseTecHtml(html)
ParseTecHtml(doc) ==
    LET out == parseTecHtml(doc, DefaultOptions, attempts + 1, scrapingReportHistory)
    IN  /\ attempts < MaxAttempts
        /\ attempts' = attempts + 1
        /\ scrapingReportHistory' = out.history
        /\ lastParse' = [call |-> "parseTecHtml", doc |-> doc,
                         options |-> DefaultOptions, out |-> out]
        /\ UNCHANGED schedVars

ClearScrapingReportHistory ==
    /\ scrapingReportHistory' = clearScrapingReportHistory(scrapingReportHistory)
    /\ UNCHANGED <<attempts, lastParse, schedVars>>

ScrapeNext ==
    \/ \E doc \in Documents, options \in ParseOptions : ParseTecHtmlWithReport(doc, options)
    \/ \E doc \in Documents : ParseTecHtml(doc)
    \/ ClearScrapingReportHistory

ScrapeSpec == Init /\ [][ScrapeNext]_vars

\* ---------------------------------------------------------------- history
\* The same service called often enough to fill the report history: one
\* page parsed again and again with the default options, and the history
\* cleared at any point.
HistoryDocuments == {DocProfile}

ParseAgain(doc) == ParseWithin(doc, DefaultOptions, MaxHistoryAttempts)

HistoryNext ==
    \/ \E doc \in HistoryDocuments : ParseAgain(doc)
    \/ ClearScrapingReportHistory

HistorySpec == Init /\ [][HistoryNext]_vars

\* -------------------------------------------------------------- snapshots
\* The caller keeps the report a call returned, or one that
\* getScrapingReportHistory() returned, and changes it.  cloneReport copies
\* the report, its four arrays, every attempt, issue and log entry and every
\* metadata object ({ ...issue.metadata }); the values inside a metadata
\* object are handed over as they are, so an array among them (selectorsTried)
\* is one object in the context's report, in every copy of it and in the
\* metadata of the issue's log entry.
NestedArrays(metadata) == DOMAIN metadata \cap {"selectorsTried"}

HoldsNestedArray(report) ==
    \E i \in 1..Len(report.issues) : NestedArrays(report.issues[i].metadata) # {}

\* metadata.selectorsTried.length = 0, seen through a metadata object that
\* holds the array
TruncateNested(metadata) ==
    IF NestedArrays(metadata) = {} THEN metadata
    ELSE [metadata EXCEPT !.selectorsTried = <<>>]

\* a report after the nested arrays of the attempt numbered attemptId were
\* emptied in place: only the reports of that attempt hold them
AfterNestedEdit(report, attemptId) ==
    IF report.attemptId # attemptId THEN report
    ELSE [report EXCEPT
             !.issues = Map(@, LAMBDA issue :
                            [issue EXCEPT !.metadata = TruncateNested(@)]),
             !.logs = Map(@, LAMBDA entry :
                          [entry EXCEPT !.metadata = TruncateNested(@)])]

\* metadata.selectorsTried = ['edited']: the metadata object gets an array of
\* the caller's own
ReplaceNested(metadata) ==
    IF NestedArrays(metadata) = {} THEN metadata
    ELSE [metadata EXCEPT !.selectorsTried = <<"edited">>]

\* the report still holds an array that cloneReport handed over
HoldsSharedArray(report) ==
    \E i \in 1..Len(report.issues) :
        /\ NestedArrays(report.issues[i].metadata) # {}
        /\ report.issues[i].metadata.selectorsTried # <<"edited">>

Edits == {"count", "array", "metadata", "nested"}

\* the report the caller holds after an edit of its own copy
EditedCopy(report, edit) ==
    CASE edit = "count" -> [report EXCEPT !.parsedCourses = 0]
      [] edit = "array" -> [report EXCEPT !.issues = <<>>]
      [] edit = "metadata" ->
             [report EXCEPT !.issues = Map(@, LAMBDA issue :
                                           [issue EXCEPT !.metadata = ReplaceNested(@)])]
      [] OTHER -> AfterNestedEdit(report, report.attemptId)

\* the caller of the latest parseTecHtmlWithReport changes the report it got:
\* a count, an array, a field of a metadata object, or an array inside one
CallerEditsReport(edit) ==
    /\ lastParse.call \in {"parseTecHtmlWithReport", "callerEdit"}
    /\ lastParse.out.returned
    /\ edit \in {"metadata", "nested"} => HoldsSharedArray(lastParse.out.report)
    /\ lastParse' = [lastParse EXCEPT !.call = "callerEdit",
                                      !.out.report = EditedCopy(@, edit)]
    /\ scrapingReportHistory' =
           IF edit = "nested"
           THEN Map(scrapingReportHistory,
                    LAMBDA stored : AfterNestedEdit(stored, lastParse.out.report.attemptId))
           ELSE scrapingReportHistory
    /\ UNCHANGED <<attempts, schedVars>>

\* the caller empties an array inside a metadata object of the k-th report
\* that getScrapingReportHistory() returned
CallerEditsHistoryCopy(k) ==
    /\ HoldsNestedArray(getScrapingReportHistory(scrapingReportHistory)[k])
    /\ scrapingReportHistory' =
           Map(scrapingReportHistory,
               LAMBDA stored : AfterNestedEdit(stored, scrapingReportHistory[k].attemptId))
    /\ UNCHANGED <<attempts, lastParse, schedVars>>

SnapshotDocuments == {DocNone, DocProfileNoTable, DocProfile, DocMatriculaOrphan}

ParseForSnapshot(doc) == ParseWithin(doc, DefaultOptions, MaxAttempts)

SnapshotNext ==
    \/ \E doc \in SnapshotDocuments : ParseForSnapshot(doc)
    \/ \E edit \in Edits : CallerEditsReport(edit)
    \/ \E k \in 1..Len(scrapingReportHistory) : CallerEditsHistoryCopy(k)
    \/ ClearScrapingReportHistory

SnapshotSpec == Init /\ [][SnapshotNext]_vars

\* -------------------------------------------------------------- callbacks
\* The service called by a caller whose logging callbacks may throw: the
\* options name at most one callback that throws whenever it is called.
CallbackOptions ==
    {o \in [onLogEntry : BOOLEAN,
            throwOnStructureError : {"undefined", "true", "false"},
            failing : {"none", "onLogEntry", "info", "warn", "error"}] :
        o.failing = "onLogEntry" => o.onLogEntry}

CallbackDocuments ==
    {DocNone, DocProfile, DocProfileMerge, DocProfileNoTable, DocMatriculaOrphan}

ParseWithCallbacks(doc, options) == ParseWithin(doc, options, MaxAttempts)

CallbackNext ==
    \/ \E doc \in CallbackDocuments, options \in CallbackOptions :
           ParseWithCallbacks(doc, options)
    \/ ClearScrapingReportHistory

CallbackSpec == Init /\ [][CallbackNext]_vars

\* ================================================================== claims
\* The clock reading of a time string, written out by hand
Minutes(t) ==
    CASE t = T0000 -> 0
      [] t = T0700 -> 420
      [] t = T0800 -> 480
      [] t = T0830 -> 510
      [] t = T0900 -> 540
      [] t = T1000 -> 600

\* [start, end) of a and of b intersect on the same day
Overlap(a, b) ==
    /\ a.day = b.day
    /\ Minutes(a.startTime) < Minutes(b.endTime)
    /\ Minutes(a.endTime) > Minutes(b.startTime)

CoursesOverlap(c, d) ==
    \E i \in 1..Len(c.sessions), j \in 1..Len(d.sessions) :
        Overlap(c.sessions[i], d.sessions[j])

\* c has a session overlapping a session of an active course of cs other
\* than the course with c's id
ClashesWithActive(c, cs) ==
    \E j \in 1..Len(cs) :
        cs[j].id # c.id /\ cs[j].isScheduled /\ CoursesOverlap(c, cs[j])

IsOp(name) == lastOp.op = name

\* C1: no schedule ever holds two different active courses with overlapping
\* sessions on the same day.
C1_NoActiveOverlap ==
    \A k \in 1..Len(schedules) :
        \A i, j \in 1..Len(schedules[k].courses) :
            (i < j /\ schedules[k].courses[i].isScheduled
                   /\ schedules[k].courses[j].isScheduled)
            => ~CoursesOverlap(schedules[k].courses[i], schedules[k].courses[j])

\* C2: for every session A of a course and every list of the other courses
\* of its schedule, the conflict test is true exactly when some active course
\* of the list has a session B on A's day with startA < endB and endA >
\* startB in minutes; touching sessions, other days and pending courses give
\* no conflict.
C2_ConflictTestExact ==
    \A k \in 1..Len(schedules) :
        LET cs == schedules[k].courses
        IN  \A i \in 1..Len(cs) : \A a \in 1..Len(cs[i].sessions) :
                /\ checkSessionConflict(cs[i].sessions[a],
                                        SelectSeq(cs, LAMBDA c : c.id # cs[i].id))
                   = (\E j \in 1..Len(cs) : \E b \in 1..Len(cs[j].sessions) :
                          /\ cs[j].id # cs[i].id
                          /\ cs[j].isScheduled
                          /\ Overlap(cs[i].sessions[a], cs[j].sessions[b]))
                /\ \A j \in 1..Len(cs) :
                       checkSessionConflict(cs[i].sessions[a], <<cs[j]>>)
                       = (cs[j].isScheduled /\
                          \E b \in 1..Len(cs[j].sessions) :
                              Overlap(cs[i].sessions[a], cs[j].sessions[b]))

\* a schedule holds an active course and another course whose session ends
\* exactly when a session of the active one starts, on the same day
C2_Witness ==
    \E k \in 1..Len(schedules) :
        LET cs == schedules[k].courses
        IN  \E i, j \in 1..Len(cs) :
                /\ i # j
                /\ cs[j].isScheduled
                /\ \E a \in 1..Len(cs[i].sessions), b \in 1..Len(cs[j].sessions) :
                       /\ cs[i].sessions[a].day = cs[j].sessions[b].day
                       /\ Minutes(cs[i].sessions[a].endTime)
                          = Minutes(cs[j].sessions[b].startTime)
                       /\ ~checkSessionConflict(cs[i].sessions[a], <<cs[j]>>)

\* the course with this id in a course list (the model never stores two
\* courses with one id)
CourseWithId(cs, id) == cs[FindIndex(cs, LAMBDA c : c.id = id)]

HasCourse(cs, id) == FindIndex(cs, LAMBDA c : c.id = id) # 0

\* C3: toggleCourseStatus on a pending course of the current schedule that
\* clashes with another active course throws and leaves the collection and
\* the current pointer exactly as they were.
C3_ToggleRejectedAtomically ==
    [][ (/\ lastOp'.op = "toggleCourseStatus"
         /\ HasCourse(CurrentCourses, lastOp'.arg)
         /\ ~CourseWithId(CurrentCourses, lastOp'.arg).isScheduled
         /\ ClashesWithActive(CourseWithId(CurrentCourses, lastOp'.arg), CurrentCourses))
        => (/\ lastOp'.err # NoError
            /\ schedules' = schedules
            /\ currentScheduleId' = currentScheduleId) ]_vars

\* a toggle has just thrown on a pending course that clashes with an active one
C3_Witness ==
    /\ IsOp("toggleCourseStatus")
    /\ lastOp.err # NoError
    /\ HasCourse(CurrentCourses, lastOp.arg)
    /\ ~CourseWithId(CurrentCourses, lastOp.arg).isScheduled
    /\ ClashesWithActive(CourseWithId(CurrentCourses, lastOp.arg), CurrentCourses)

\* the collection with course id of schedule number k replaced by course c
WithCourse(scheds, k, id, c) ==
    [n \in 1..Len(scheds) |->
        IF n # k THEN scheds[n]
        ELSE [scheds[n] EXCEPT !.courses =
                 [m \in 1..Len(scheds[n].courses) |->
                     IF scheds[n].courses[m].id = id THEN c
                     ELSE scheds[n].courses[m]]]]

\* C4: toggleCourseStatus on an active course of the current schedule never
\* throws and makes exactly that course pending, whatever the other courses.
C4_DeactivateAlwaysSucceeds ==
    [][ (/\ lastOp'.op = "toggleCourseStatus"
         /\ HasCourse(CurrentCourses, lastOp'.arg)
         /\ CourseWithId(CurrentCourses, lastOp'.arg).isScheduled)
        => (/\ lastOp'.err = NoError
            /\ schedules' = WithCourse(schedules, CurrentIndex, lastOp'.arg,
                   [CourseWithId(CurrentCourses, lastOp'.arg)
                       EXCEPT !.isScheduled = FALSE])) ]_vars

\* a toggle has just made a course pending while another course of the
\* schedule is active
C4_Witness ==
    /\ IsOp("toggleCourseStatus")
    /\ lastOp.err = NoError
    /\ HasCourse(CurrentCourses, lastOp.arg)
    /\ ~CourseWithId(CurrentCourses, lastOp.arg).isScheduled
    /\ \E j \in 1..Len(CurrentCourses) :
           CurrentCourses[j].id # lastOp.arg /\ CurrentCourses[j].isScheduled

\* C5: updateCourse with an active replacement checks it against the active
\* courses of the current schedule other than the one with its id; on a clash
\* it throws and the collection is unchanged, otherwise the stored course
\* with that id is replaced in place by the new value.
C5_UpdateCheckedAgainstOthers ==
    [][ (/\ lastOp'.op = "updateCourse"
         /\ lastOp'.course[1].isScheduled
         /\ CurrentIndex # 0)
        => IF ClashesWithActive(lastOp'.course[1], CurrentCourses)
           THEN lastOp'.err # NoError /\ schedules' = schedules
           ELSE /\ lastOp'.err = NoError
                /\ schedules' = WithCourse(schedules, CurrentIndex,
                                           lastOp'.course[1].id, lastOp'.course[1]) ]_vars

\* an active replacement has just been stored in place while another course
\* of the schedule is active
C5_Witness ==
    /\ IsOp("updateCourse")
    /\ lastOp.err = NoError
    /\ lastOp.course[1].isScheduled
    /\ HasCourse(CurrentCourses, lastOp.course[1].id)
    /\ CourseWithId(CurrentCourses, lastOp.course[1].id) = lastOp.course[1]
    /\ \E j \in 1..Len(CurrentCourses) :
           CurrentCourses[j].id # lastOp.course[1].id /\ CurrentCourses[j].isScheduled

\* the courses of the current schedule whose ids are first .. nextId - 1
InsertedSince(first) ==
    SelectSeq(CurrentCourses, LAMBDA c : c.id \in first..(nextId - 1))

\* C6: after addCourse, after the HTML import of scraped courses and after
\* importCourses, every course the call inserted is in the current schedule
\* and pending, whatever flag it carried, and the call raised no conflict.
C6_InsertedPending ==
    /\ (IsOp("addCourse") /\ CurrentIndex # 0)
       => /\ lastOp.err = NoError
          /\ HasCourse(CurrentCourses, lastOp.arg)
          /\ ~CourseWithId(CurrentCourses, lastOp.arg).isScheduled
    /\ (IsOp("handleImport") /\ CurrentIndex # 0)
       => /\ lastOp.err = NoError
          /\ Len(InsertedSince(lastOp.args[1])) = lastOp.args[2]
          /\ \A i \in 1..lastOp.args[2] : ~InsertedSince(lastOp.args[1])[i].isScheduled
    /\ IsOp("importCourses")
       => /\ lastOp.err \in {NoError, NothingNewError}
          /\ \A i \in 1..Len(InsertedSince(lastOp.args[2])) :
                 ~InsertedSince(lastOp.args[2])[i].isScheduled

\* importCourses has just copied, as pending, a course that is active in the
\* source schedule and overlaps an active course of the destination
C6_Witness ==
    /\ IsOp("importCourses")
    /\ lastOp.err = NoError
    /\ \E i \in 1..Len(InsertedSince(lastOp.args[2])) :
           LET c == InsertedSince(lastOp.args[2])[i]
               src == schedules[FindIndex(schedules,
                                          LAMBDA s : s.id = lastOp.args[1])].courses
           IN  /\ ~c.isScheduled
               /\ ClashesWithActive(c, CurrentCourses)
               /\ \E j \in 1..Len(src) :
                      /\ src[j].isScheduled
                      /\ src[j].name = c.name /\ src[j].group = c.group

SamePair(c, d) == c.name = d.name /\ c.group = d.group

\* C7: importCourses adds exactly the source courses for which the
\* destination held no course with the same name and the same group, in
\* source order; when there is none it throws the nothing-new error and adds
\* nothing.
C7_ImportByPair ==
    (/\ IsOp("importCourses")
     /\ CurrentIndex # 0
     /\ lastOp.args[1] \in ScheduleIds)
    => LET new == InsertedSince(lastOp.args[2])
           old == SelectSeq(CurrentCourses,
                            LAMBDA c : c.id \notin lastOp.args[2]..(nextId - 1))
           src == IF lastOp.args[1] = currentScheduleId THEN old
                  ELSE schedules[FindIndex(schedules,
                                           LAMBDA s : s.id = lastOp.args[1])].courses
           expected == SelectSeq(src, LAMBDA c :
                           \A j \in 1..Len(old) : ~SamePair(c, old[j]))
       IN  IF Len(expected) = 0
           THEN lastOp.err = NothingNewError /\ Len(new) = 0
           ELSE /\ lastOp.err = NoError
                /\ Len(new) = Len(expected)
                /\ \A i \in 1..Len(expected) :
                       /\ SamePair(new[i], expected[i])
                       /\ new[i].sessions = expected[i].sessions

\* C8: when the confirmation of a rename fails, the promise is rejected with
\* the failure's error and the schedule again has the name it had when
\* renameSchedule was called.
C8_RenameRollbackRestoresName ==
    IsOp("renameRejected")
    => /\ lastOp.err = ServerError
       /\ lastOp.call[1].scheduleId \in ScheduleIds
       /\ schedules[FindIndex(schedules,
                              LAMBDA s : s.id = lastOp.call[1].scheduleId)].name
          = lastOp.call[1].nameAtCall

\* a rename to a different name has just been rejected
C8_Witness ==
    /\ IsOp("renameRejected")
    /\ lastOp.err = ServerError
    /\ lastOp.call[1].newName # lastOp.call[1].nameAtCall
    /\ lastOp.call[1].scheduleId \in ScheduleIds

\* C9: the rollback of a failed rename reverts only the name of the renamed
\* schedule; every other change made to the collection while the
\* confirmation was pending is still there.
C9_RollbackKeepsEdits ==
    [][ lastOp'.op = "renameRejected"
        => schedules' = [n \in 1..Len(schedules) |->
                            IF schedules[n].id = lastOp'.call[1].scheduleId
                            THEN [schedules[n] EXCEPT !.name = lastOp'.call[1].nameAtCall]
                            ELSE schedules[n]] ]_vars

\* no element of the document has one of the ids t_guia_horario,
\* tguiaHorario, tBodyCursos
NoRootMatches(doc) ==
    /\ ~doc.guia
    /\ ~(doc.table # "none" /\ doc.tableId)
    /\ doc.cursos = "none"

AllRootSelectors ==
    <<"#t_guia_horario", "#tguiaHorario", ".window_pg #tguiaHorario",
      "#tBodyCursos", "table#tBodyCursos">>

HasStructureIssue(report) ==
    \E i \in 1..Len(report.issues) :
        report.issues[i].code = "SCRAPING_STRUCTURE_NOT_FOUND"

\* C10: on a document where no profile root selector and no matricula root
\* selector matches, parseTecHtmlWithReport with throwOnStructureError true
\* throws a ScrapingStructureError that carries the five root selectors, and
\* with throwOnStructureError false or absent it returns no course and a
\* report with an issue of code SCRAPING_STRUCTURE_NOT_FOUND.
C10_StructureFailure ==
    (lastParse.call = "parseTecHtmlWithReport" /\ NoRootMatches(lastParse.doc))
    => IF lastParse.options.throwOnStructureError = "true"
       THEN /\ ~lastParse.out.returned
            /\ lastParse.out.thrown.name = "ScrapingStructureError"
            /\ lastParse.out.thrown.selectorsTried = AllRootSelectors
       ELSE /\ lastParse.out.returned
            /\ Len(lastParse.out.courses) = 0
            /\ HasStructureIssue(lastParse.out.report)

\* a strict call has just thrown on a document without roots, after a call
\* with throwOnStructureError false on such a document returned its report
C10_Witness ==
    /\ lastParse.call = "parseTecHtmlWithReport"
    /\ NoRootMatches(lastParse.doc)
    /\ lastParse.options.throwOnStructureError = "true"
    /\ ~lastParse.out.returned
    /\ attempts = 2
    /\ Len(scrapingReportHistory) = 1
    /\ HasStructureIssue(scrapingReportHistory[1])
    /\ scrapingReportHistory[1].parsedCourses = 0

\* the position of the first log entry of a report with that event, 0 when
\* there is none
LogIndex(report, event) == FindIndex(report.logs, LAMBDA e : e.event = event)

\* C11: every invocation of parseTecHtmlWithReport, whatever its outcome,
\* sets the report's finishedAt, emits the SCRAPING_ATTEMPT_FINISHED entry
\* after the SCRAPING_ATTEMPT_STARTED entry, and adds exactly one snapshot of
\* its report to the history.
C11_EveryAttemptFinishes ==
    [][ attempts' # attempts
        => LET report == lastParse'.out.context
           IN  /\ report.finishedAt # NotFinished
               /\ LogIndex(report, "SCRAPING_ATTEMPT_STARTED") # 0
               /\ LogIndex(report, "SCRAPING_ATTEMPT_FINISHED")
                  > LogIndex(report, "SCRAPING_ATTEMPT_STARTED")
               /\ Len(scrapingReportHistory') = Len(scrapingReportHistory) + 1
               /\ scrapingReportHistory'[1] = report
               /\ SubSeq(scrapingReportHistory', 2, Len(scrapingReportHistory'))
                  = scrapingReportHistory ]_vars

\* C12: the report history never holds more than 25 reports and is ordered
\* most recent first; an attempt that returns puts its report at the front
\* and, at the cap, drops only the oldest entry; clearScrapingReportHistory
\* leaves the history empty.
C12_HistoryBounded ==
    [][ LET old == scrapingReportHistory
            new == scrapingReportHistory'
        IN  /\ Len(new) <= 25
            /\ \A i \in 1..(Len(new) - 1) : new[i].startedAt > new[i + 1].startedAt
            /\ (attempts' # attempts /\ lastParse'.out.returned)
               => /\ Len(new) > 0
                  /\ new[1] = lastParse'.out.context
                  /\ SubSeq(new, 2, Len(new))
                     = IF Len(old) >= 25 THEN SubSeq(old, 1, 24) ELSE old
            /\ (attempts' = attempts) => new = <<>> ]_vars

\* the history is full and its oldest entry is no longer the first attempt:
\* an attempt beyond the cap has pushed one out
C12_Witness ==
    /\ Len(scrapingReportHistory) = 25
    /\ scrapingReportHistory[25].startedAt > 1
    /\ scrapingReportHistory[1].startedAt = attempts
    /\ scrapingReportHistory[1].startedAt = scrapingReportHistory[25].startedAt + 24

\* the reports there are to look at: the stored ones and the one of the
\* latest call
Reports ==
    {scrapingReportHistory[i] : i \in 1..Len(scrapingReportHistory)}
    \cup (IF lastParse.call = "none" THEN {} ELSE {lastParse.out.context})

CountFound(report, found) ==
    Cardinality({i \in 1..Len(report.scheduleAttempts) :
                     report.scheduleAttempts[i].found = found})

\* C13: in every report schedulesFound counts the attempts with found = true
\* and schedulesMissing those with found = false; an attempt is found exactly
\* when it parsed at least one session, and one that is not found says
\* 'Formato no reconocido' for a non-empty schedule text and 'Horario vacio'
\* for an empty one.
C13_ReportAccounting ==
    \A report \in Reports :
        /\ report.schedulesFound = CountFound(report, TRUE)
        /\ report.schedulesMissing = CountFound(report, FALSE)
        /\ report.schedulesFound + report.schedulesMissing
           = Len(report.scheduleAttempts)
        /\ \A i \in 1..Len(report.scheduleAttempts) :
               LET attempt == report.scheduleAttempts[i]
               IN  /\ attempt.found <=> attempt.parsedSessions >= 1
                   /\ ~attempt.found
                      => attempt.reason = IF attempt.rawSchedule # ""
                                          THEN "Formato no reconocido"
                                          ELSE "Horario vacio"

\* a stored report with one attempt found and one not recognised, and a
\* stored report with an attempt on an empty schedule
C13_Witness ==
    /\ \E report \in Reports :
           /\ report.schedulesFound = 1
           /\ report.schedulesMissing = 1
           /\ \E i \in 1..2 : report.scheduleAttempts[i].reason = "Formato no reconocido"
    /\ \E report \in Reports :
           \E i \in 1..Len(report.scheduleAttempts) :
               report.scheduleAttempts[i].reason = "Horario vacio"

\* the (code, group) pairs of the rows the profile extractor processes, in
\* row order
ProcessedPairs(doc) ==
    LET rows == SelectSeq(doc.rows, LAMBDA r : r.cells >= 5)
    IN  [i \in 1..Len(rows) |->
            [code |-> IF rows[i].code # <<>> THEN rows[i].code ELSE <<"Desconocido">>,
             group |-> IF rows[i].group # <<>> THEN rows[i].group ELSE <<"0">>]]

\* a sequence without the repetitions of its elements
FirstOccurrences(seq) ==
    LET F[k \in 0..Len(seq)] ==
            IF k = 0 THEN <<>>
            ELSE IF \E j \in 1..(k - 1) : seq[j] = seq[k] THEN F[k - 1]
            ELSE Append(F[k - 1], seq[k])
    IN  F[Len(seq)]

\* the latest call returned the courses of a student-profile page
ProfileParsed ==
    /\ lastParse.call # "none"
    /\ lastParse.out.returned
    /\ lastParse.out.context.source = "student-profile"
    /\ lastParse.out.context.totalRows > 0

\* C14: the profile extractor returns one course per distinct pair (code,
\* group) of the processed rows, in order of first occurrence, and no
\* professor is named twice in a course's professor field.
C14_OneCoursePerPair ==
    ProfileParsed
    => LET pairs == FirstOccurrences(ProcessedPairs(lastParse.doc))
           courses == lastParse.out.courses
       IN  /\ Len(courses) = Len(pairs)
           /\ \A i \in 1..Len(courses) :
                  /\ courses[i].originalCode = pairs[i].code
                  /\ courses[i].group = pairs[i].group
                  /\ \A j, k \in 1..Len(courses[i].professor) :
                         j # k => courses[i].professor[j] # courses[i].professor[k]

\* the rows the profile extractor processes
ProcessedRows(doc) == SelectSeq(doc.rows, LAMBDA r : r.cells >= 5)

\* a row has a cell in the column that holds a field
HasColumn(doc, row, field) == \E k \in 1..row.cells : doc.layout[k] = field

\* C15: in a profile table with a header row, every field is read from the
\* column whose header names it, wherever that column stands: code, name,
\* group and schedule text as the attempt of the row records them, professor
\* and classroom as the course of the row holds them.
C15_FieldsByHeader ==
    (ProfileParsed /\ lastParse.doc.headers # <<>>)
    => LET doc == lastParse.doc
           rows == ProcessedRows(doc)
           attempts_ == lastParse.out.context.scheduleAttempts
           courses == lastParse.out.courses
       IN  /\ Len(attempts_) = Len(rows)
           /\ \A i \in 1..Len(rows) :
                  /\ (HasColumn(doc, rows[i], "code") /\ rows[i].code # <<>>)
                     => attempts_[i].courseCode = rows[i].code
                  /\ (HasColumn(doc, rows[i], "name") /\ rows[i].name # <<>>)
                     => attempts_[i].courseName = rows[i].name
                  /\ (HasColumn(doc, rows[i], "group") /\ rows[i].group # <<>>)
                     => attempts_[i].group = rows[i].group
                  /\ HasColumn(doc, rows[i], "schedule")
                     => attempts_[i].rawSchedule = rows[i].schedule.text
           /\ Len(courses) = Len(rows)
              => \A i \in 1..Len(rows) :
                     /\ (HasColumn(doc, rows[i], "professor") /\ rows[i].professor # <<>>)
                        => courses[i].professor = rows[i].professor
                     /\ (HasColumn(doc, rows[i], "classroom") /\ rows[i].classroom # "")
                        => \A k \in 1..Len(courses[i].sessions) :
                               courses[i].sessions[k].classroom = rows[i].classroom

\* the group rows of the detail rows of a matricula page, in document order
AllGroups(doc) ==
    LET F[k \in 0..Len(doc.trs)] ==
            IF k = 0 THEN <<>> ELSE F[k - 1] \o doc.trs[k].groups
    IN  F[Len(doc.trs)]

\* the positions of the lines that match the day+time pattern
TimeLines(lines) ==
    SelectSeq([i \in 1..Len(lines) |-> i], LAMBDA i : lines[i].matched)

\* the latest call returned the courses of a matricula page, one per group
\* row of the page
MatriculaParsed ==
    /\ lastParse.call # "none"
    /\ lastParse.out.returned
    /\ lastParse.out.context.source = "matricula"
    /\ Len(lastParse.out.courses) = Len(AllGroups(lastParse.doc))
    /\ Len(lastParse.out.courses) > 0

\* C16: parseMatriculaSchedule emits one session per line that matches the
\* day+time pattern, in line order; its classroom is the next line when that
\* line is not a time line, 'Sin aula' when there is no next line or the
\* next line is a time line; other lines contribute nothing.
C16_ClassroomFromNextLine ==
    MatriculaParsed
    => \A g \in 1..Len(lastParse.out.courses) :
           LET lines == AllGroups(lastParse.doc)[g].lines
               at == TimeLines(lines)
               sessions == lastParse.out.courses[g].sessions
           IN  /\ Len(sessions) = Len(at)
               /\ \A k \in 1..Len(sessions) :
                      sessions[k].classroom
                      = IF at[k] + 1 <= Len(lines) /\ ~lines[at[k] + 1].matched
                        THEN lines[at[k] + 1].text
                        ELSE "Sin aula"

\* a zero-padded HH:MM string with the hour in 0..23 and the minute in 0..59
WellFormedTime(t) ==
    /\ Len(t) = 5
    /\ t[3] = ":"
    /\ \A i \in {1, 2, 4, 5} : \E d \in 1..10 : Digits[d] = t[i]
    /\ LET value(i) == (CHOOSE d \in 1..10 : Digits[d] = t[i]) - 1
       IN  /\ 10 * value(1) + value(2) <= 23
           /\ 10 * value(4) + value(5) <= 59

\* the sessions of the courses the latest call returned
EmittedSessions ==
    IF lastParse.call = "none" \/ ~lastParse.out.returned THEN {}
    ELSE UNION {{lastParse.out.courses[c].sessions[k] :
                    k \in 1..Len(lastParse.out.courses[c].sessions)} :
                c \in 1..Len(lastParse.out.courses)}

\* C17: every session the scraper emits has one of the seven day names as
\* its day and zero-padded HH:MM times in range; the letters L, K, M, J, V,
\* S, D stand for the seven days in order and 18:0 is read as 18:00.
C17_SessionsWellFormed ==
    /\ \A session \in EmittedSessions :
           /\ \E d \in 1..7 : session.day = DAYS[d]
           /\ WellFormedTime(session.startTime)
           /\ WellFormedTime(session.endTime)
    /\ \A d \in 1..7 :
           LET letter == <<"L", "K", "M", "J", "V", "S", "D">>[d]
           IN  normalizeDay(DayToken(letter, letter, letter)) = DAYS[d]
    /\ parseNormalizedTime(18, 0) = <<"1", "8", ":", "0", "0">>


\* the single-item operation applied to each id in list order, each against
\* the state the ids before it left; an id whose operation fails changes nothing
InListOrder(scheds, cur, courseIds, single(_, _, _)) ==
    LET state[i \in 0..Len(courseIds)] ==
            IF i = 0 THEN scheds
            ELSE single(state[i - 1], cur, courseIds[i])
    IN  state[Len(courseIds)]

ToggleOne(scheds, cur, courseId) == toggleCourseStatus(scheds, cur, courseId).schedules

\* C18: a bulk toggle or a bulk delete over a list of course ids leaves the
\* collection in the state reached by applying the single toggle or the
\* single removal to each id in list order, each against the state the ids
\* before it left.
C18_BulkIsSequential ==
    [][/\ lastOp'.op = "handleBulkToggleStatus" =>
              schedules' = InListOrder(schedules, currentScheduleId,
                                       lastOp'.args, ToggleOne)
       /\ lastOp'.op = "handleBulkDelete" =>
              schedules' = InListOrder(schedules, currentScheduleId,
                                       lastOp'.args, removeCourse)]_vars

\* the bulk toggle alone
C18_BulkToggleIsSequential ==
    [][lastOp'.op = "handleBulkToggleStatus" =>
           schedules' = InListOrder(schedules, currentScheduleId,
                                    lastOp'.args, ToggleOne)]_vars

\* the bulk delete alone
C18_BulkDeleteIsSequential ==
    [][lastOp'.op = "handleBulkDelete" =>
           schedules' = InListOrder(schedules, currentScheduleId,
                                    lastOp'.args, removeCourse)]_vars


\* the naming rules: not empty, 3 to 50 characters, each one a letter, a
\* digit, a space, a hyphen or an underscore
FollowsNamingRules(name) ==
    /\ name # ""
    /\ Len(name) >= 3
    /\ Len(name) <= 50
    /\ \A i \in 1..Len(name) :
           \/ OneOf(CharAt(name, i), Letters)
           \/ OneOf(CharAt(name, i), DecimalDigits)
           \/ CharAt(name, i) \in {" ", "-", "_"}

\* C19: every schedule name in the collection follows the naming rules; a
\* name that breaks them is refused on create and on rename before the
\* collection changes.
C19_StoredNamesFollowRules ==
    \A i \in 1..Len(schedules) : FollowsNamingRules(schedules[i].name)

\* the names a rename stores follow the naming rules
C19_RenamedNamesFollowRules ==
    [][lastOp'.op = "renameSchedule" =>
           \A i \in 1..Len(schedules') :
               schedules'[i].id = lastOp'.arg => FollowsNamingRules(schedules'[i].name)]_vars


\* what the try block of the last call threw
LastFailure ==
    TryBlock(lastParse.doc, lastParse.options,
             StartAttempt(lastParse.doc, lastParse.options, attempts)).thrown

\* the code of the issue that records a failure of the try block
IssueCodeOf(error) ==
    IF error.name \in {"ScrapingStructureError", "ScrapingElementNotFoundError"}
    THEN error.code
    ELSE "SCRAPING_UNEXPECTED_ERROR"

IssuesWithCode(report, code) ==
    Cardinality({i \in 1..Len(report.issues) : report.issues[i].code = code})

\* C20: a call of parseTecHtmlWithReport with throwOnStructureError false or
\* absent returns courses and a report whatever the input; a failure of the
\* extraction (structure, element not found, anything else) is one issue of
\* that report; an element-not-found failure is never what a call throws.
C20_FailuresAreRecorded ==
    lastParse.call = "parseTecHtmlWithReport" =>
        /\ ~Truthy(lastParse.options.throwOnStructureError) => lastParse.out.returned
        /\ ~lastParse.out.returned =>
               lastParse.out.thrown.name # "ScrapingElementNotFoundError"
        /\ (lastParse.out.returned /\ LastFailure.name # "none") =>
               IssuesWithCode(lastParse.out.report, IssueCodeOf(LastFailure)) = 1

\* a call that is not asked to throw returns
C20_NonStrictReturns ==
    (lastParse.call = "parseTecHtmlWithReport"
        /\ ~Truthy(lastParse.options.throwOnStructureError))
    => lastParse.out.returned

\* an unexpected failure inside the extraction is caught and recorded
C20_UnexpectedRecorded ==
    /\ lastParse.call = "parseTecHtmlWithReport"
    /\ lastParse.out.returned
    /\ LastFailure.name = "Error"
    /\ IssuesWithCode(lastParse.out.report, "SCRAPING_UNEXPECTED_ERROR") = 1


\* the last call made again with the same document and the same
\* throwOnStructureError, and no logging option at all
WithoutLogging ==
    parseTecHtmlWithReport(lastParse.doc,
                           [lastParse.options EXCEPT !.onLogEntry = FALSE,
                                                     !.failing = "none"],
                           attempts, <<>>)

\* the counts of a report
ReportCounts(report) ==
    <<report.totalRows, report.parsedCourses, report.schedulesFound,
      report.schedulesMissing>>

\* C21: a call of parseTecHtmlWithReport and the same call without logging
\* options end the same way: both throw or both return, and when they return
\* the courses, the counts of the report and its issues are the same.
C21_LoggingNeverAffectsOutcome ==
    lastParse.call = "parseTecHtmlWithReport" =>
        /\ lastParse.out.returned = WithoutLogging.returned
        /\ (lastParse.out.returned /\ WithoutLogging.returned) =>
               /\ lastParse.out.courses = WithoutLogging.courses
               /\ ReportCounts(lastParse.out.report) = ReportCounts(WithoutLogging.report)
               /\ lastParse.out.report.issues = WithoutLogging.report.issues

\* the same, for the calls that return
C21_SameCoursesWhenReturned ==
    (lastParse.call = "parseTecHtmlWithReport" /\ lastParse.out.returned) =>
        /\ WithoutLogging.returned
        /\ lastParse.out.courses = WithoutLogging.courses
        /\ lastParse.out.report.issues = WithoutLogging.report.issues


\* the current pointer is null or designates a schedule of the collection
PointerValid == currentScheduleId = NoId \/ currentScheduleId \in ScheduleIds

\* C22: currentScheduleId is always null or the id of a schedule in the
\* collection; creating a schedule makes it current, deleting the current
\* schedule makes the first remaining one current (null when none remains),
\* deleting another schedule leaves the pointer unchanged.
C22_PointerDesignatesSchedule ==
    /\ PointerValid
    /\ [][/\ PointerValid'
          /\ lastOp'.op \in {"createSchedule", "autoCreate"} =>
                 /\ currentScheduleId' = lastOp'.arg
                 /\ currentScheduleId' = schedules'[Len(schedules')].id
          /\ (lastOp'.op = "deleteSchedule" /\ lastOp'.arg = currentScheduleId) =>
                 currentScheduleId' = IF Len(schedules') > 0 THEN schedules'[1].id
                                      ELSE NoId
          /\ (lastOp'.op = "deleteSchedule" /\ lastOp'.arg # currentScheduleId) =>
                 currentScheduleId' = currentScheduleId]_vars

\* the only schedule, which was current, has been deleted
C22_Witness ==
    /\ lastOp.op = "deleteSchedule"
    /\ schedules = <<>>
    /\ currentScheduleId = NoId


\* what the claim says of one stored course c and the course m loaded for it
MigratedAsStated(c, m) ==
    /\ "sessions" \in DOMAIN m
    /\ m.isScheduled \in BOOLEAN
    /\ IF "sessions" \in DOMAIN c
       THEN /\ m.sessions = c.sessions
            /\ m.isScheduled = (IF "isScheduled" \in DOMAIN c THEN c.isScheduled ELSE TRUE)
       ELSE /\ Len(m.sessions) = 1
            /\ m.isScheduled
            /\ m.sessions[1].day = (IF "day" \in DOMAIN c THEN c.day ELSE "Lunes")
            /\ m.sessions[1].startTime =
                   (IF "startTime" \in DOMAIN c THEN c.startTime ELSE T0000)
            /\ m.sessions[1].endTime =
                   (IF "endTime" \in DOMAIN c THEN c.endTime ELSE T0000)
            /\ m.sessions[1].classroom =
                   (IF "classroom" \in DOMAIN c THEN c.classroom ELSE "")

StoredCoursesOf(schedule) ==
    IF "courses" \in DOMAIN schedule THEN schedule.courses ELSE <<>>

\* C23: the collection the hook starts with holds, for every stored course, a
\* course with sessions and an isScheduled flag: stored sessions and a stored
\* flag are kept (an absent flag becomes true), a flat record gets one session
\* from its day, times and classroom (Lunes, 00:00 and '' when absent) and is
\* scheduled; nothing stored, or a stored value that is no array, gives an
\* empty collection.
C23_MigrationAsStated ==
    lastOp.op = "load" =>
        LET saved == lastOp.call[1]
        IN  IF ~saved.present \/ ~saved.data.isArray THEN schedules = <<>>
            ELSE /\ Len(schedules) = Len(saved.data.items)
                 /\ \A i \in 1..Len(schedules) :
                        LET stored == StoredCoursesOf(saved.data.items[i])
                        IN  /\ Len(schedules[i].courses) = Len(stored)
                            /\ \A j \in 1..Len(stored) :
                                   MigratedAsStated(stored[j], schedules[i].courses[j])

\* a flat record without times was loaded next to a record with sessions and
\* no isScheduled field
C23_Witness ==
    /\ lastOp.op = "load"
    /\ Len(schedules) = 1
    /\ Len(schedules[1].courses) = 2
    /\ "sessions" \notin DOMAIN lastOp.call[1].data.items[1].courses[1]
    /\ schedules[1].courses[1].sessions[1].startTime = T0000
    /\ schedules[1].courses[1].isScheduled
    /\ "isScheduled" \notin DOMAIN lastOp.call[1].data.items[1].courses[2]
    /\ schedules[1].courses[2].sessions = PA.sessions


\* the courses the latest call returned
ReturnedCourses ==
    IF lastParse.call = "none" \/ ~lastParse.out.returned THEN <<>>
    ELSE lastParse.out.courses

SameTriple(a, b) ==
    /\ a.day = b.day
    /\ a.startTime = b.startTime
    /\ a.endTime = b.endTime

\* C24: no course the scraper returns, from a profile page or from a
\* matricula page, has two sessions with the same day, start and end.
C24_SessionsUnique ==
    \A c \in 1..Len(ReturnedCourses) :
        \A i, j \in 1..Len(ReturnedCourses[c].sessions) :
            i # j => ~SameTriple(ReturnedCourses[c].sessions[i],
                                 ReturnedCourses[c].sessions[j])

\* the same, for the courses of a profile page
C24_ProfileSessionsUnique ==
    (lastParse.call # "none" /\ lastParse.out.context.source = "student-profile")
    => C24_SessionsUnique


\* the sessions of the courses in the collection
StoredSessions ==
    UNION {UNION {{schedules[i].courses[j].sessions[k] :
                      k \in 1..Len(schedules[i].courses[j].sessions)} :
                  j \in 1..Len(schedules[i].courses)} :
           i \in 1..Len(schedules)}

StartsBeforeEnd(session) ==
    (session.startTime # <<>> /\ session.endTime # <<>>)
    => NumLess(parseTime(session.startTime), parseTime(session.endTime))

\* C25: every session with both times starts before it ends, in the
\* collection the hook holds (loaded, added or edited) and in the courses
\* the scraper returns.
C25_SessionsStartBeforeEnd ==
    /\ \A session \in StoredSessions : StartsBeforeEnd(session)
    /\ \A session \in EmittedSessions : StartsBeforeEnd(session)

\* the same, for the collection alone
C25_StoredSessionsStartBeforeEnd ==
    \A session \in StoredSessions : StartsBeforeEnd(session)


\* C26: nothing a caller does to a report it was handed changes an entry of
\* the stored history, and a later parse leaves the entries already stored as
\* they were.
C26_SnapshotsIndependent ==
    [][/\ (attempts' = attempts /\ scrapingReportHistory' # <<>>) =>
              scrapingReportHistory' = scrapingReportHistory
       /\ attempts' = attempts + 1 =>
              \A k \in 1..Len(scrapingReportHistory) :
                  k + 1 <= Len(scrapingReportHistory') =>
                      scrapingReportHistory'[k + 1] = scrapingReportHistory[k]]_vars


\* the group rows of the detail row whose id is 'trH' + rowId, none when the
\* document has no such row
OwnGroupRows(doc, rowId) ==
    LET own == getElementById(doc, <<"trH">> \o rowId)
    IN  IF own = 0 THEN <<>> ELSE doc.trs[own].groups

CoursesWithCode(courses, code) ==
    Cardinality({i \in 1..Len(courses) : courses[i].originalCode = code})

DetailIssues(report, code) ==
    Cardinality({i \in 1..Len(report.issues) :
                     /\ report.issues[i].code \in {"SCRAPING_DETAIL_ROW_NOT_FOUND",
                                                   "SCRAPING_GROUP_ROWS_NOT_FOUND"}
                     /\ report.issues[i].metadata.courseCode = code})

\* the matricula parse the latest call returned from
MatriculaReturned ==
    /\ lastParse.call = "parseTecHtmlWithReport"
    /\ lastParse.out.returned
    /\ lastParse.out.report.source = "matricula"
    /\ LastFailure.name = "none"

\* C27: in a matricula parse, a primary row with id C yields one course per
\* group row of the detail row with id 'trH' + C and none from any other row;
\* when that detail row is absent or has no group rows, the row yields no
\* course and exactly one issue, and the other primary rows are processed
\* all the same.
C27_OwnDetailRowOnly ==
    MatriculaReturned =>
        \A pos \in 1..Len(lastParse.doc.trs) :
            LET row == lastParse.doc.trs[pos]
                own == OwnGroupRows(lastParse.doc, row.id)
            IN  IsPrimaryRow(row) =>
                    /\ CoursesWithCode(lastParse.out.courses, row.code) = Len(own)
                    /\ DetailIssues(lastParse.out.report, row.code)
                       = (IF Len(own) = 0 THEN 1 ELSE 0)

\* the same, for documents where a primary row without a detail row of its
\* own is not followed by a row with group rows
C27_OwnDetailRowWhenNoneFollows ==
    (MatriculaReturned /\ lastParse.doc # DocMatriculaMisplaced) =>
        \A pos \in 1..Len(lastParse.doc.trs) :
            LET row == lastParse.doc.trs[pos]
                own == OwnGroupRows(lastParse.doc, row.id)
            IN  IsPrimaryRow(row) =>
                    /\ CoursesWithCode(lastParse.out.courses, row.code) = Len(own)
                    /\ DetailIssues(lastParse.out.report, row.code)
                       = (IF Len(own) = 0 THEN 1 ELSE 0)


\* session number i of candidate c overlaps a session of an active course of
\* cs other than the course with c's id
SessionClashes(c, i, cs) ==
    \E j \in 1..Len(cs) :
        /\ cs[j].id # c.id
        /\ cs[j].isScheduled
        /\ \E b \in 1..Len(cs[j].sessions) : Overlap(c.sessions[i], cs[j].sessions[b])

\* the error names the first session of c, in c's order, that clashes
NamesFirstClash(err, c, cs) ==
    \E i \in 1..Len(c.sessions) :
        /\ SessionClashes(c, i, cs)
        /\ \A h \in 1..(i - 1) : ~SessionClashes(c, h, cs)
        /\ err = <<"Choque de horario", c.sessions[i].day,
                   c.sessions[i].startTime, c.sessions[i].endTime>>

\* the candidate of the latest toggleCourseStatus or updateCourse
Candidate(op, cs) ==
    IF op.op = "updateCourse" THEN op.course[1] ELSE CourseWithId(cs, op.arg)

\* C28: when toggleCourseStatus or updateCourse is rejected, the error names
\* day, start and end of the first session of the candidate, in the
\* candidate's session order, that overlaps a session of another active
\* course of the current schedule.
C28_MessageNamesFirstClash ==
    [][ (/\ lastOp'.op \in {"toggleCourseStatus", "updateCourse"}
         /\ lastOp'.err # NoError)
        => NamesFirstClash(lastOp'.err, Candidate(lastOp', CurrentCourses),
                           CurrentCourses) ]_vars

\* a candidate has just been rejected whose first session clashes and whose
\* second session clashes too, with other times
C28_Witness ==
    /\ lastOp.op \in {"toggleCourseStatus", "updateCourse"}
    /\ lastOp.err # NoError
    /\ LET c == Candidate(lastOp, CurrentCourses)
       IN  /\ Len(c.sessions) >= 2
           /\ SessionClashes(c, 1, CurrentCourses)
           /\ SessionClashes(c, 2, CurrentCourses)
           /\ c.sessions[1] # c.sessions[2]
           /\ lastOp.err = ConflictMessage(c.sessions[1])

\* a candidate has just been rejected whose first session is free: the error
\* names its second session and not the session of the other course
C28_WitnessLaterSession ==
    /\ lastOp.op \in {"toggleCourseStatus", "updateCourse"}
    /\ lastOp.err # NoError
    /\ LET c == Candidate(lastOp, CurrentCourses)
       IN  /\ Len(c.sessions) >= 2
           /\ ~SessionClashes(c, 1, CurrentCourses)
           /\ lastOp.err = ConflictMessage(c.sessions[2])
           /\ \A j \in 1..Len(CurrentCourses) :
                  \A b \in 1..Len(CurrentCourses[j].sessions) :
                      (CurrentCourses[j].id # c.id /\ CurrentCourses[j].isScheduled)
                      => CurrentCourses[j].sessions[b] # c.sessions[2]


\* the profile parse the latest call returned from
ProfileReturned ==
    /\ lastParse.call = "parseTecHtmlWithReport"
    /\ lastParse.out.returned
    /\ lastParse.out.report.source = "student-profile"
    /\ LastFailure.name = "none"

\* the rows of a profile document with fewer than 5 cells
ShortRows(doc) == {i \in 1..Len(doc.rows) : doc.rows[i].cells < 5}

\* the key under which the extractor files a row: code, '-', group
KeyOf(code, group) == code \o <<"-">> \o group

\* a returned course is filed under the key of an attempt
CourseOfAttempt(courses, attempt) ==
    \E c \in 1..Len(courses) :
        KeyOf(courses[c].originalCode, courses[c].group)
        = KeyOf(attempt.courseCode, attempt.group)

\* the attempts of a report made for the rows filed under a course's key
AttemptsOf(report, course) ==
    {k \in 1..Len(report.scheduleAttempts) :
         KeyOf(report.scheduleAttempts[k].courseCode, report.scheduleAttempts[k].group)
         = KeyOf(course.originalCode, course.group)}

\* what holds of a profile parse whatever its rows: a row with fewer than 5
\* cells leaves one SCRAPING_ROW_SKIPPED issue and no course, and a row whose
\* schedule gives no session still has its course, to which it adds nothing
SkippedAndEmptyRows(doc, report, courses) ==
    /\ IssuesWithCode(report, "SCRAPING_ROW_SKIPPED") = Cardinality(ShortRows(doc))
    /\ \A c \in 1..Len(courses) : AttemptsOf(report, courses[c]) # {}
    /\ \A k \in 1..Len(report.scheduleAttempts) :
           CourseOfAttempt(courses, report.scheduleAttempts[k])
    /\ \A c \in 1..Len(courses) :
           (\A k \in AttemptsOf(report, courses[c]) :
                ~report.scheduleAttempts[k].found)
           => courses[c].sessions = <<>>

C29_WitnessUnrecognised ==
    /\ ProfileReturned
    /\ \E k \in 1..Len(lastParse.out.report.scheduleAttempts) :
           /\ ~lastParse.out.report.scheduleAttempts[k].found
           /\ \E c \in 1..Len(lastParse.out.courses) :
                  /\ AttemptsOf(lastParse.out.report, lastParse.out.courses[c]) = {k}
                  /\ lastParse.out.courses[c].sessions = <<>>


\* the operations of the hook on courses; the HTML import is a call of
\* addCourses
CourseOperations ==
    {"addCourse", "addCourses", "handleImport", "updateCourse", "removeCourse",
     "toggleCourseStatus", "importCourses"}

\* after differs from before at most in the courses of the schedules with
\* id cur
OnlyCoursesOf(cur, before, after) ==
    /\ Len(after) = Len(before)
    /\ \A k \in 1..Len(before) :
           /\ after[k].id = before[k].id
           /\ after[k].name = before[k].name
           /\ after[k].createdAt = before[k].createdAt
           /\ before[k].id # cur => after[k].courses = before[k].courses

\* C30: addCourse, addCourses, updateCourse, removeCourse, toggleCourseStatus
\* and importCourses change at most the course list of the current schedule:
\* id, name and createdAt of every schedule, the courses of every other
\* schedule (the import source too) and the current pointer stay as they
\* were, and with no current schedule nothing changes.
C30_OnlyCurrentCourses ==
    [][ lastOp'.op \in CourseOperations
        => (/\ currentScheduleId' = currentScheduleId
            /\ OnlyCoursesOf(currentScheduleId, schedules, schedules')
            /\ currentScheduleId = NoId => schedules' = schedules) ]_vars

\* courses have just been imported into the current schedule from another
\* schedule, which holds a course whose id the current schedule does not hold
C30_Witness ==
    /\ IsOp("importCourses")
    /\ lastOp.err = NoError
    /\ Len(CurrentCourses) > 0
    /\ \E k \in 1..Len(schedules) :
           /\ schedules[k].id = lastOp.args[1]
           /\ schedules[k].id # currentScheduleId
           /\ \E i \in 1..Len(schedules[k].courses) :
                  ~HasCourse(CurrentCourses, schedules[k].courses[i].id)

\* a course has just been removed from the current schedule while another
\* schedule holds courses
C30_WitnessRemove ==
    /\ IsOp("removeCourse")
    /\ \E k \in 1..Len(schedules) :
           /\ schedules[k].id # currentScheduleId
           /\ Len(schedules[k].courses) > 0

====
